---------------------------- MODULE Spec2Model ----------------------------
(***************************************************************************)
(* A model of the query-orchestration pipeline of RAG-Analytics            *)
(* (fastapi-app/app/services): the read-only guard of                      *)
(* DatabaseService.execute_query, the retry loop of LLMService._call_llm,  *)
(* the text classification and decomposition of RAGPipeline, and the       *)
(* per-request state machine RAGPipeline.process_query with the in-memory  *)
(* conversation map and the durable chat history (ChatHistoryService).     *)
(*                                                                         *)
(* A text (a Python str) is a sequence of one-character strings, so that   *)
(* strip, upper, lower, split, startswith and the substring test `in` are  *)
(* computed character by character as Python computes them.  A fixed piece *)
(* of boilerplate that no function of the program inspects (the body of an *)
(* exception message, a canned reply) is carried as one element.           *)
(***************************************************************************)
EXTENDS Integers, Sequences, FiniteSets, TLC

VARIABLES
    vs,             \* one VectorStoreService.search / get_all_context call
    hist,           \* the save_message calls made, and one get_session_messages call
    admin,          \* one clear_conversation / delete_conversation call
    txt,            \* one application of a text function of the pipeline to a text
    exq,            \* one DatabaseService.execute_query call and what it reached
    llm,            \* one LLMService._call_llm call: loop position and event log
    conversations,  \* RAGPipeline.conversations: id -> reference of its object
    chat_sessions,  \* table chat_sessions: conversation_id -> row
    chat_messages,  \* table chat_messages: rows in insertion (id) order
    uuid_next,      \* how many uuid4 values have been generated
    heap,           \* the ConversationHistory objects, by reference
    runs            \* the frames of the process_query calls, in order of start

vars == <<vs, hist, admin, txt, exq, llm, conversations, chat_sessions, chat_messages,
          uuid_next, heap, runs>>

-----------------------------------------------------------------------------
(* Python str operations on texts                                          *)

None == <<"<None>">>

Lowercase == <<"a","b","c","d","e","f","g","h","i","j","k","l","m",
               "n","o","p","q","r","s","t","u","v","w","x","y","z">>
Uppercase == <<"A","B","C","D","E","F","G","H","I","J","K","L","M",
               "N","O","P","Q","R","S","T","U","V","W","X","Y","Z">>
Digits == {"0","1","2","3","4","5","6","7","8","9"}
Whitespace == {" ", "\n", "\t", "\r", "\f"}

UpperChar(c) ==
    IF \E i \in DOMAIN Lowercase : Lowercase[i] = c
    THEN Uppercase[CHOOSE i \in DOMAIN Lowercase : Lowercase[i] = c]
    ELSE c

LowerChar(c) ==
    IF \E i \in DOMAIN Uppercase : Uppercase[i] = c
    THEN Lowercase[CHOOSE i \in DOMAIN Uppercase : Uppercase[i] = c]
    ELSE c

Upper(s) == IF s = <<>> THEN <<>> ELSE [i \in 1..Len(s) |-> UpperChar(s[i])]

Lower(s) == IF s = <<>> THEN <<>> ELSE [i \in 1..Len(s) |-> LowerChar(s[i])]

RECURSIVE LStrip(_)
LStrip(s) ==
    IF s = <<>> THEN s
    ELSE IF Head(s) \in Whitespace THEN LStrip(Tail(s)) ELSE s

RECURSIVE RStrip(_)
RStrip(s) ==
    IF s = <<>> THEN s
    ELSE IF s[Len(s)] \in Whitespace THEN RStrip(SubSeq(s, 1, Len(s) - 1)) ELSE s

Strip(s) == RStrip(LStrip(s))

StartsWith(s, p) == Len(s) >= Len(p) /\ SubSeq(s, 1, Len(p)) = p

EndsWith(s, p) == Len(s) >= Len(p) /\ SubSeq(s, Len(s) - Len(p) + 1, Len(s)) = p

\* Python `p in s`
Contains(s, p) ==
    \E i \in 0..(Len(s) - Len(p)) : SubSeq(s, i + 1, i + Len(p)) = p

\* Python s.count(c) for a one-character c
Count(s, c) == Cardinality({i \in DOMAIN s : s[i] = c})

\* Python s.split(c) for a one-character c: the pieces between the separators
RECURSIVE Split(_, _)
Split(s, c) ==
    IF \A i \in DOMAIN s : s[i] # c THEN <<s>>
    ELSE LET k == CHOOSE i \in DOMAIN s :
                      s[i] = c /\ \A j \in 1..(i - 1) : s[j] # c
         IN  <<SubSeq(s, 1, k - 1)>> \o Split(SubSeq(s, k + 1, Len(s)), c)

\* Python s.split(): the maximal runs of non-whitespace characters
RECURSIVE Words(_)
Words(s) ==
    LET t == LStrip(s) IN
    IF t = <<>> THEN <<>>
    ELSE IF \A i \in DOMAIN t : t[i] \notin Whitespace THEN <<t>>
    ELSE LET k == CHOOSE i \in DOMAIN t :
                      t[i] \in Whitespace /\ \A j \in 1..(i - 1) : t[j] \notin Whitespace
         IN  <<SubSeq(t, 1, k - 1)>> \o Words(SubSeq(t, k + 1, Len(t)))

\* Python sep.join(parts)
RECURSIVE Join(_, _)
Join(sep, parts) ==
    IF parts = <<>> THEN <<>>
    ELSE IF Len(parts) = 1 THEN parts[1]
    ELSE parts[1] \o sep \o Join(sep, Tail(parts))

\* the elements of a sequence
Range(s) == {s[i] : i \in DOMAIN s}

-----------------------------------------------------------------------------
(* DatabaseService.execute_query                                           *)

dangerous_keywords ==
    << <<"I","N","S","E","R","T">>, <<"U","P","D","A","T","E">>,
       <<"D","E","L","E","T","E">>, <<"D","R","O","P">>,
       <<"A","L","T","E","R">>, <<"C","R","E","A","T","E">>,
       <<"T","R","U","N","C","A","T","E">>, <<"E","X","E","C">>,
       <<"E","X","E","C","U","T","E">> >>

\* sql_upper = sql.strip().upper()
SqlUpperNoUpper(sql) == Strip(sql)
sql_upper(sql) == Upper(Strip(sql))

\* str(e) of the ValueError the guard raises; "" when the guard passes
GuardError(sql) ==
    IF ~StartsWith(sql_upper(sql), <<"S","E","L","E","C","T">>)
    THEN <<"Only SELECT queries are allowed for security reasons">>
    ELSE IF \E i \in DOMAIN dangerous_keywords :
                Contains(sql_upper(sql), dangerous_keywords[i])
    THEN LET k == CHOOSE i \in DOMAIN dangerous_keywords :
                      /\ Contains(sql_upper(sql), dangerous_keywords[i])
                      /\ \A j \in 1..(i - 1) :
                            ~Contains(sql_upper(sql), dangerous_keywords[j])
         IN  <<"Query contains forbidden keyword: ">> \o dangerous_keywords[k]
    ELSE <<>>

\* What the structured-data backend does with a statement it is handed:
\* rows, or an error of the backend (syntax error, missing table).
DbRows == { <<>>, <<[total |-> "100"]>> }
DbOutcomes ==
    [kind : {"rows"}, rows : DbRows] \cup
    {[kind |-> "error", msg |-> <<"(sqlite3.OperationalError) no such table">>]}

\* variant: execute_query without its guard
ExecuteQueryNoGuard(sql, db) ==
    IF db.kind = "rows"
    THEN [kind |-> "return", cls |-> "", msg |-> <<>>,
          rows |-> db.rows, sessions |-> 1, executed |-> <<sql>>]
    ELSE [kind |-> "raise", cls |-> "OperationalError", msg |-> db.msg,
          rows |-> <<>>, sessions |-> 1, executed |-> <<sql>>]

\* execute_query(sql) with the backend answering `db`: the result (rows or the
\* exception raised) and the statements that reached a session of the backend.
ExecuteQuery(sql, db) ==
    IF GuardError(sql) # <<>>
    THEN [kind |-> "raise", cls |-> "ValueError", msg |-> GuardError(sql),
          rows |-> <<>>, sessions |-> 0, executed |-> <<>>]
    ELSE IF db.kind = "rows"
    THEN [kind |-> "return", cls |-> "", msg |-> <<>>,
          rows |-> db.rows, sessions |-> 1, executed |-> <<sql>>]
    ELSE [kind |-> "raise", cls |-> "OperationalError", msg |-> db.msg,
          rows |-> <<>>, sessions |-> 1, executed |-> <<sql>>]

-----------------------------------------------------------------------------
(* LLMService: the backends and _call_llm                                  *)

max_retries == 3
retry_delay == 5

\* settings.llm_provider.lower(): the four configured names and an unknown one
Providers == {"gemini", "groq", "ollama", "openai", "azure"}
HttpxProviders == {"gemini", "groq", "ollama"}

\* What the hosted model does with one request.
BackendEvents == {"success", "rate_limited", "server_error", "transport_error"}

\* what one request gives back: the text, or the exception raised.  `at` is
\* the attempt that raised it: two exceptions are two objects.
Ok(text, at) ==
    [kind |-> "ok", cls |-> "", status |-> 200, at |-> at, text |-> text]
Exc(cls, status, at) ==
    [kind |-> "exc", cls |-> cls, status |-> status, at |-> at, text |-> <<>>]
NoOutcome ==
    [kind |-> "none", cls |-> "", status |-> 0, at |-> 0, text |-> <<>>]

\* _call_gemini, _call_groq, _call_ollama: httpx.post, raise_for_status()
\* (httpx.HTTPStatusError carrying the status code), then the stripped text.
CallHttpx(event, text, at) ==
    CASE event = "success"      -> Ok(Strip(text), at)
      [] event = "rate_limited" -> Exc("httpx.HTTPStatusError", 429, at)
      [] event = "server_error" -> Exc("httpx.HTTPStatusError", 500, at)
      [] OTHER                  -> Exc("httpx.ConnectError", 0, at)

\* _call_openai goes through the OpenAI client, which reports a failed request
\* with its own exception classes (openai.RateLimitError for status 429), none
\* of them an httpx.HTTPStatusError.
CallOpenai(event, text, at) ==
    CASE event = "success"      -> Ok(Strip(text), at)
      [] event = "rate_limited" -> Exc("openai.RateLimitError", 429, at)
      [] event = "server_error" -> Exc("openai.InternalServerError", 500, at)
      [] OTHER                  -> Exc("openai.APIConnectionError", 0, at)

\* the try body of _call_llm: the provider branching
CallProvider(provider, event, text, at) ==
    IF provider \in HttpxProviders THEN CallHttpx(event, text, at)
    ELSE IF provider = "openai" THEN CallOpenai(event, text, at)
    ELSE Exc("ValueError", 0, at)

\* whether the try body reaches a backend at all
ReachesBackend(provider) == provider \in HttpxProviders \cup {"openai"}

\* the frame of a _call_llm call at the top of its loop; temperature is "0.1"
\* in generate_sql and "0.4" in compose_answer
Temperatures == {"0.1", "0.4"}
LlmStart(provider, temperature) ==
    [provider |-> provider, temperature |-> temperature,
     pc |-> "loop", attempt |-> 0,
     last_error |-> NoOutcome, result |-> NoOutcome, error |-> NoOutcome,
     log |-> <<>>]

Request(n, o, backend) ==
    [ev |-> "attempt", n |-> n, secs |-> 0, outcome |-> o, backend |-> backend]
Sleep(n, secs) ==
    [ev |-> "sleep", n |-> n, secs |-> secs, outcome |-> NoOutcome,
     backend |-> FALSE]

\* the handler `except httpx.HTTPStatusError` and its test of the status code
IsRateLimitAnyStatus(o) == o.kind = "exc" /\ o.cls = "httpx.HTTPStatusError"
IsRateLimit(o) ==
    o.kind = "exc" /\ o.cls = "httpx.HTTPStatusError" /\ o.status = 429

\* wait_time = self.retry_delay * (attempt + 1)
WaitTimeConstant(attempt) == retry_delay
wait_time(attempt) == retry_delay * (attempt + 1)

\* One iteration of `for attempt in range(self.max_retries)`: the request, and
\* the handler the outcome selects.  log records the requests and the sleeps.
LlmIteration(st, event, text) ==
    LET o   == CallProvider(st.provider, event, text, st.attempt + 1)
        req == Request(st.attempt + 1, o, ReachesBackend(st.provider))
    IN  IF o.kind = "ok"
        THEN [st EXCEPT !.pc = "returned", !.result = o, !.log = @ \o <<req>>]
        ELSE IF IsRateLimit(o)
        THEN [st EXCEPT !.last_error = o, !.attempt = @ + 1,
                        !.log = @ \o <<req, Sleep(st.attempt + 1,
                                                  wait_time(st.attempt))>>]
        ELSE [st EXCEPT !.pc = "raised", !.error = o,
                        !.last_error = IF o.cls = "httpx.HTTPStatusError"
                                       THEN o ELSE @,
                        !.log = @ \o <<req>>]

\* the loop is left when range(max_retries) is used up
LoopDone(st) == st.attempt >= max_retries

\* after the loop: raise last_error
LlmExhaustedFirstError(st) ==
    [st EXCEPT !.pc = "raised", !.error = st.log[1].outcome]
LlmExhausted(st) == [st EXCEPT !.pc = "raised", !.error = st.last_error]

\* A whole _call_llm call against a backend that answers the k-th request with
\* script[k].
RECURSIVE LlmRun(_, _)
LlmRun(st, script) ==
    IF st.pc # "loop" THEN st
    ELSE IF LoopDone(st) THEN LlmExhausted(st)
    ELSE LlmRun(LlmIteration(st, script[st.attempt + 1].event,
                             script[st.attempt + 1].text), script)

\* str(e) of an exception of the transport
ErrorText(e) ==
    IF e.cls = "ValueError" THEN <<"Unknown LLM provider: azure">>
    ELSE IF e.status = 429 THEN <<"429 Too Many Requests">>
    ELSE IF e.status = 500 THEN <<"500 Internal Server Error">>
    ELSE <<"connection failed">>

-----------------------------------------------------------------------------
(* RAGPipeline: classification and decomposition of the question text      *)

DATA_KEYWORDS ==
    << <<"s","a","l","e","s">>, <<"r","e","v","e","n","u","e">>, <<"p","r","o","f","i","t">>,
       <<"o","r","d","e","r">>, <<"c","u","s","t","o","m","e","r">>, <<"p","r","o","d","u","c","t">>,
       <<"r","e","g","i","o","n">>, <<"t","o","t","a","l">>, <<"s","u","m">>,
       <<"c","o","u","n","t">>, <<"a","v","e","r","a","g","e">>, <<"t","o","p">>,
       <<"b","o","t","t","o","m">>, <<"b","e","s","t">>, <<"w","o","r","s","t">>,
       <<"h","o","w"," ","m","a","n","y">>, <<"h","o","w"," ","m","u","c","h">>, <<"w","h","a","t"," ","i","s"," ","t","h","e">>,
       <<"s","h","o","w"," ","m","e">>, <<"l","i","s","t">>, <<"g","i","v","e"," ","m","e">>,
       <<"c","o","m","p","a","r","e">>, <<"t","r","e","n","d">>, <<"g","r","o","w","t","h">>,
       <<"d","e","c","l","i","n","e">>, <<"i","n","c","r","e","a","s","e">>, <<"d","e","c","r","e","a","s","e">>,
       <<"m","o","n","t","h","l","y">>, <<"d","a","i","l","y">>, <<"w","e","e","k","l","y">>,
       <<"y","e","a","r","l","y">>, <<"t","o","d","a","y">>, <<"y","e","s","t","e","r","d","a","y">>,
       <<"t","h","i","s"," ","m","o","n","t","h">>, <<"l","a","s","t"," ","m","o","n","t","h">>, <<"t","h","i","s"," ","y","e","a","r">>,
       <<"l","a","s","t"," ","y","e","a","r">>, <<"q","u","a","r","t","e","r">>, <<"p","e","r","f","o","r","m","a","n","c","e">>,
       <<"a","m","o","u","n","t">>, <<"q","u","a","n","t","i","t","y">>, <<"p","r","i","c","e">>,
       <<"c","o","s","t">>, <<"m","a","r","g","i","n">>, <<"d","i","s","c","o","u","n","t">>,
       <<"c","a","t","e","g","o","r","y">>, <<"s","t","a","t","u","s">>, <<"p","e","n","d","i","n","g">>,
       <<"c","o","m","p","l","e","t","e","d">>, <<"c","a","n","c","e","l","l","e","d">> >>

CONVERSATIONAL_PATTERNS ==
    << <<"w","h","o"," ","a","r","e"," ","y","o","u">>, <<"w","h","a","t"," ","a","r","e"," ","y","o","u">>,
       <<"w","h","a","t"," ","c","a","n"," ","y","o","u"," ","d","o">>, <<"h","o","w"," ","d","o"," ","y","o","u"," ","w","o","r","k">>,
       <<"h","e","l","l","o">>, <<"h","i">>,
       <<"h","e","y">>, <<"g","o","o","d"," ","m","o","r","n","i","n","g">>,
       <<"g","o","o","d"," ","a","f","t","e","r","n","o","o","n">>, <<"g","o","o","d"," ","e","v","e","n","i","n","g">>,
       <<"t","h","a","n","k"," ","y","o","u">>, <<"t","h","a","n","k","s">>,
       <<"b","y","e">>, <<"g","o","o","d","b","y","e">>,
       <<"h","e","l","p"," ","m","e">>, <<"w","h","a","t"," ","i","s"," ","y","o","u","r"," ","n","a","m","e">>,
       <<"i","n","t","r","o","d","u","c","e"," ","y","o","u","r","s","e","l","f">>, <<"t","e","l","l"," ","m","e"," ","a","b","o","u","t"," ","y","o","u","r","s","e","l","f">>,
       <<"y","o","u","r"," ","n","a","m","e">>, <<"i"," ","a","m">>,
       <<"m","y"," ","n","a","m","e"," ","i","s">>, <<"c","a","l","l"," ","m","e">>,
       <<"i","'","m">> >>

OUT_OF_SCOPE_PATTERNS ==
    << <<"d","o"," ","y","o","u"," ","k","n","o","w"," ","a","b","o","u","t">>, <<"t","e","l","l"," ","m","e"," ","a","b","o","u","t">>,
       <<"w","h","a","t"," ","i","s">>, <<"w","h","o"," ","i","s">>,
       <<"w","h","e","r","e"," ","i","s">>, <<"e","x","p","l","a","i","n">>,
       <<"d","e","f","i","n","e">>, <<"m","e","a","n","i","n","g"," ","o","f">>,
       <<"h","i","s","t","o","r","y"," ","o","f">>, <<"h","o","w"," ","d","o","e","s">>,
       <<"w","h","y"," ","d","o","e","s">>, <<"g","o","o","g","l","e">>,
       <<"f","a","c","e","b","o","o","k">>, <<"m","i","c","r","o","s","o","f","t">>,
       <<"a","m","a","z","o","n">>, <<"a","p","p","l","e">>,
       <<"t","w","i","t","t","e","r">>, <<"o","p","e","n","a","i">>,
       <<"w","e","a","t","h","e","r">>, <<"n","e","w","s">>,
       <<"p","o","l","i","t","i","c","s">>, <<"s","p","o","r","t","s">>,
       <<"m","o","v","i","e">>, <<"m","u","s","i","c">>,
       <<"r","e","c","i","p","e">>, <<"p","r","o","g","r","a","m","m","i","n","g">>,
       <<"p","y","t","h","o","n">>, <<"j","a","v","a","s","c","r","i","p","t">>,
       <<"c","o","d","e">>, <<"w","r","i","t","e"," ","a">>,
       <<"c","r","e","a","t","e"," ","a">>, <<"t","r","a","n","s","l","a","t","e">>,
       <<"c","a","p","i","t","a","l"," ","o","f">>, <<"p","o","p","u","l","a","t","i","o","n"," ","o","f">>,
       <<"p","r","e","s","i","d","e","n","t">>, <<"p","r","i","m","e"," ","m","i","n","i","s","t","e","r">> >>

\* any(p in text for p in patterns)
AnyIn(patterns, text) == \E i \in DOMAIN patterns : Contains(text, patterns[i])

\* the bullet glyph U+2022 is the one-character text <<"U+2022">>
BulletGlyphs == {"U+2022", "-", "*"}

\* re.match(r'^[\u2022\-\*\d\.]\s*.+', line) on a stripped line without newline:
\* one character of the class, then at least one more character
DetectsBullet(line) ==
    Len(line) >= 2 /\ line[1] \in BulletGlyphs \cup Digits \cup {"."}

\* _is_multi_question
_is_multi_question(question) ==
    LET lines == Split(Strip(question), "\n")
        bullet_count ==
            Cardinality({i \in DOMAIN lines : DetectsBullet(Strip(lines[i]))})
    IN  bullet_count >= 2 \/ Count(question, "?") >= 2

\* the number of leading digits of a line
RECURSIVE LeadingDigits(_)
LeadingDigits(line) ==
    IF line # <<>> /\ Head(line) \in Digits
    THEN 1 + LeadingDigits(Tail(line)) ELSE 0

\* variant: group(1) of the bullet pattern is not stripped
MatchBulletNoStrip(line) ==
    IF Len(line) >= 2 /\ line[1] \in BulletGlyphs
    THEN SubSeq(line, 2, Len(line)) ELSE None

\* re.match(r'^[\u2022\-\*]\s*(.+)', line): group(1).strip(), or None
MatchBullet(line) ==
    IF Len(line) >= 2 /\ line[1] \in BulletGlyphs
    THEN Strip(SubSeq(line, 2, Len(line))) ELSE None

\* re.match(r'^\d+[\.\)]\s*(.+)', line): group(1).strip(), or None
MatchNumbered(line) ==
    LET d == LeadingDigits(line) IN
    IF d >= 1 /\ Len(line) >= d + 2 /\ line[d + 1] \in {".", ")"}
    THEN Strip(SubSeq(line, d + 2, Len(line))) ELSE None

\* the loop of _extract_questions over the lines
RECURSIVE BulletQuestions(_)
BulletQuestions(lines) ==
    IF lines = <<>> THEN <<>>
    ELSE LET line == Strip(Head(lines)) IN
         IF MatchBullet(line) # None
         THEN <<MatchBullet(line)>> \o BulletQuestions(Tail(lines))
         ELSE IF MatchNumbered(line) # None
         THEN <<MatchNumbered(line)>> \o BulletQuestions(Tail(lines))
         ELSE BulletQuestions(Tail(lines))

\* variant: the short fragments are kept
RECURSIVE QuestionPartsKeepShort(_)
QuestionPartsKeepShort(parts) ==
    IF parts = <<>> THEN <<>>
    ELSE LET part == Strip(Head(parts)) IN
         IF part # <<>>
         THEN <<part \o <<"?">> >> \o QuestionPartsKeepShort(Tail(parts))
         ELSE QuestionPartsKeepShort(Tail(parts))

\* the loop of _extract_questions over text.split('?')
RECURSIVE QuestionParts(_)
QuestionParts(parts) ==
    IF parts = <<>> THEN <<>>
    ELSE LET part == Strip(Head(parts)) IN
         IF part # <<>> /\ Len(part) > 3
         THEN <<part \o <<"?">> >> \o QuestionParts(Tail(parts))
         ELSE QuestionParts(Tail(parts))

\* _extract_questions
_extract_questions(text) ==
    LET bullet_questions == BulletQuestions(Split(Strip(text), "\n")) IN
    IF Len(bullet_questions) >= 2 THEN bullet_questions
    ELSE IF Count(text, "?") >= 2 THEN QuestionParts(Split(text, "?"))
    ELSE <<Strip(text)>>

\* _is_conversational_query_single
_is_conversational_query_single(question) ==
    LET question_lower == Strip(Lower(question)) IN
    IF AnyIn(DATA_KEYWORDS, question_lower) THEN FALSE
    ELSE IF AnyIn(OUT_OF_SCOPE_PATTERNS, question_lower) THEN TRUE
    ELSE IF AnyIn(CONVERSATIONAL_PATTERNS, question_lower) THEN TRUE
    ELSE Len(Words(question_lower)) <= 4

\* variant: the conversational phrases are tested before the data keywords
IsConversationalPhrasesFirst(question) ==
    LET question_lower == Strip(Lower(question)) IN
    IF _is_multi_question(question) THEN TRUE
    ELSE IF AnyIn(CONVERSATIONAL_PATTERNS, question_lower) THEN TRUE
    ELSE IF AnyIn(DATA_KEYWORDS, question_lower) THEN FALSE
    ELSE IF AnyIn(OUT_OF_SCOPE_PATTERNS, question_lower) THEN TRUE
    ELSE Len(Words(question_lower)) <= 4

\* _is_conversational_query
_is_conversational_query(question) ==
    LET question_lower == Strip(Lower(question)) IN
    IF _is_multi_question(question) THEN TRUE
    ELSE IF AnyIn(DATA_KEYWORDS, question_lower) THEN FALSE
    ELSE IF AnyIn(OUT_OF_SCOPE_PATTERNS, question_lower) THEN TRUE
    ELSE IF AnyIn(CONVERSATIONAL_PATTERNS, question_lower) THEN TRUE
    ELSE Len(Words(question_lower)) <= 4

IdentityPhrases ==
    << <<"w","h","o"," ","a","r","e"," ","y","o","u">>,
       <<"w","h","a","t"," ","a","r","e"," ","y","o","u">>,
       <<"i","n","t","r","o","d","u","c","e"," ","y","o","u","r","s","e","l","f">>,
       <<"t","e","l","l"," ","m","e"," ","a","b","o","u","t"," ","y","o","u","r","s","e","l","f">>,
       <<"w","h","a","t"," ","i","s"," ","y","o","u","r"," ","n","a","m","e">>,
       <<"y","o","u","r"," ","n","a","m","e">> >>
CapabilityPhrases ==
    << <<"w","h","a","t"," ","c","a","n"," ","y","o","u"," ","d","o">>,
       <<"h","o","w"," ","d","o"," ","y","o","u"," ","w","o","r","k">>,
       <<"h","e","l","p"," ","m","e">> >>
GreetingPhrases ==
    << <<"h","e","l","l","o">>,
       <<"h","i">>,
       <<"h","e","y">>,
       <<"g","o","o","d"," ","m","o","r","n","i","n","g">>,
       <<"g","o","o","d"," ","a","f","t","e","r","n","o","o","n">>,
       <<"g","o","o","d"," ","e","v","e","n","i","n","g">> >>
ThanksPhrases == << <<"t","h","a","n","k"," ","y","o","u">>, <<"t","h","a","n","k","s">> >>
GoodbyePhrases == << <<"b","y","e">>, <<"g","o","o","d","b","y","e">> >>
IntroPhrases ==
    << <<"i"," ","a","m">>,
       <<"i","'","m">>,
       <<"m","y"," ","n","a","m","e"," ","i","s">>,
       <<"c","a","l","l"," ","m","e">> >>

\* re.search(r"(?:i am|i'm|my name is|call me)\s+(.+)", text): whether, at
\* position i, a phrase is followed by whitespace and then a character
IntroAt(text, i) ==
    \E k \in DOMAIN IntroPhrases :
        LET e == i + Len(IntroPhrases[k]) IN
        /\ e <= Len(text)
        /\ SubSeq(text, i, e - 1) = IntroPhrases[k]
        /\ text[e] \in Whitespace
        /\ LStrip(SubSeq(text, e, Len(text))) # <<>>

\* the text up to the first newline (what `.+` can match)
UpToNewline(s) == Split(s, "\n")[1]

\* group(1) of the leftmost match: the first alternative that matches there
IntroGroup(text) ==
    LET i == CHOOSE i \in DOMAIN text :
                 IntroAt(text, i) /\ \A j \in 1..(i - 1) : ~IntroAt(text, j)
        k == CHOOSE k \in DOMAIN IntroPhrases :
                 /\ i + Len(IntroPhrases[k]) <= Len(text)
                 /\ SubSeq(text, i, i + Len(IntroPhrases[k]) - 1) = IntroPhrases[k]
                 /\ text[i + Len(IntroPhrases[k])] \in Whitespace
                 /\ \A j \in 1..(k - 1) :
                       ~(/\ i + Len(IntroPhrases[j]) <= Len(text)
                         /\ SubSeq(text, i, i + Len(IntroPhrases[j]) - 1)
                                = IntroPhrases[j]
                         /\ text[i + Len(IntroPhrases[j])] \in Whitespace)
    IN  UpToNewline(LStrip(SubSeq(text, i + Len(IntroPhrases[k]), Len(text))))

\* str.rstrip('.,!?')
RECURSIVE RStripPunct(_)
RStripPunct(s) ==
    IF s # <<>> /\ s[Len(s)] \in {".", ",", "!", "?"}
    THEN RStripPunct(SubSeq(s, 1, Len(s) - 1)) ELSE s

\* str.capitalize()
Capitalize(w) ==
    IF w = <<>> THEN w ELSE <<UpperChar(w[1])>> \o Lower(Tail(w))

\* ' '.join(word.capitalize() for word in name.split())
CapitalizeWords(name) ==
    LET ws == Words(name) IN
    Join(<<" ">>, [i \in DOMAIN ws |-> Capitalize(ws[i])])

\* _get_conversational_response: the canned replies, in the order tested
_get_conversational_response(question) ==
    LET question_lower == Strip(Lower(question)) IN
    IF _is_multi_question(question)
    THEN <<"Processing multiple questions...">>
    ELSE IF AnyIn(IdentityPhrases, question_lower)
    THEN <<"I'm your Analytics Assistant! I help you explore and understand your business data through natural language questions. You can ask me about sales, revenue, customers, products, regional performance, and more. Just ask questions like 'What are the total sales?' or 'Show me the top customers' and I'll query the database and provide insights.">>
    ELSE IF AnyIn(CapabilityPhrases, question_lower)
    THEN <<"I can help you analyze your business data! Here's what I can do:",
           "\n",
           "\n",
           "U+2022",
           " Answer questions about sales, revenue, and profits",
           "\n",
           "U+2022",
           " Show customer and product performance",
           "\n",
           "U+2022",
           " Analyze regional data and trends",
           "\n",
           "U+2022",
           " Compare time periods (today, this month, etc.)",
           "\n",
           "U+2022",
           " Find top performers and identify patterns",
           "\n",
           "\n",
           "Try asking: 'What is the total sales?' or 'Show me sales by region'">>
    ELSE IF AnyIn(GreetingPhrases, question_lower)
    THEN <<"Hello! I'm your Analytics Assistant. How can I help you explore your business data today?">>
    ELSE IF \E i \in DOMAIN question_lower : IntroAt(question_lower, i)
    THEN <<"Nice to meet you, ">>
         \o CapitalizeWords(RStripPunct(Strip(IntroGroup(question_lower))))
         \o <<"! I'm your Analytics Assistant. How can I help you explore your business data today?">>
    ELSE IF AnyIn(ThanksPhrases, question_lower)
    THEN <<"You're welcome! Feel free to ask if you have more questions about your data.">>
    ELSE IF AnyIn(GoodbyePhrases, question_lower)
    THEN <<"Goodbye! Come back anytime you need help with your business analytics.">>
    ELSE IF AnyIn(OUT_OF_SCOPE_PATTERNS, question_lower)
    THEN <<"Sorry, I'm your Analytics Assistant and I can only help with questions about your business data. I can't answer general knowledge questions.",
           "\n",
           "\n",
           "Try asking questions like:",
           "\n",
           "U+2022",
           " 'What is the total sales?'",
           "\n",
           "U+2022",
           " 'Show me top customers'",
           "\n",
           "U+2022",
           " 'What are the sales by region?'">>
    ELSE <<"I'm your Analytics Assistant, designed to help you explore business data. Try asking questions about sales, customers, products, or regional performance!">>

\* _get_conversational_response_single
_get_conversational_response_single(question) ==
    LET question_lower == Strip(Lower(question)) IN
    IF AnyIn(IdentityPhrases, question_lower)
    THEN <<"I'm your Analytics Assistant for business data queries.">>
    ELSE IF AnyIn(CapabilityPhrases, question_lower)
    THEN <<"I can help you analyze sales, revenue, customers, products, and regional data.">>
    ELSE IF AnyIn(GreetingPhrases, question_lower)
    THEN <<"Hello! How can I help you with your business data?">>
    ELSE IF AnyIn(ThanksPhrases, question_lower)
    THEN <<"You're welcome!">>
    ELSE IF AnyIn(GoodbyePhrases, question_lower)
    THEN <<"Goodbye!">>
    ELSE IF AnyIn(OUT_OF_SCOPE_PATTERNS, question_lower)
    THEN <<"Sorry, I can only answer questions about your business data.">>
    ELSE <<"I'm your Analytics Assistant for business data queries.">>

-----------------------------------------------------------------------------
(* LLMService.generate_sql and compose_answer                              *)

\* what a caller of _call_llm sees: the text returned or the exception raised
NoExc == [cls |-> "", msg |-> <<>>]
LlmOutcome(st) ==
    IF st.pc = "returned"
    THEN [kind |-> "ok", text |-> st.result.text, exc |-> NoExc]
    ELSE [kind |-> "raise", text |-> <<>>,
          exc |-> [cls |-> st.error.cls, msg |-> ErrorText(st.error)]]

\* the loop of generate_sql over the lines of the response, from line i on:
\* the last REFINED: line before the first SQL: line, and the query text
RECURSIVE ParseLines(_, _, _)
ParseLines(lines, i, refined_question) ==
    IF i > Len(lines) THEN [refined_question |-> refined_question, sql |-> <<>>]
    ELSE IF StartsWith(lines[i], <<"R","E","F","I","N","E","D",":">>)
    THEN ParseLines(lines, i + 1, Strip(SubSeq(lines[i], 9, Len(lines[i]))))
    ELSE IF StartsWith(lines[i], <<"S","Q","L",":">>)
    THEN [refined_question |-> refined_question,
          sql |-> Strip(SubSeq(lines[i], 5, Len(lines[i]))) \o <<"\n">>
                  \o Join(<<"\n">>, SubSeq(lines, i + 1, Len(lines)))]
    ELSE ParseLines(lines, i + 1, refined_question)

\* the clean-up of the query text: the code fence is stripped (the backquote
\* U+0060 is the one-character text <<"U+0060">>)
CleanSql(sql0) ==
    LET s1 == Strip(sql0)
        s2 == IF StartsWith(s1, <<"U+0060","U+0060","U+0060","s","q","l">>) THEN SubSeq(s1, 7, Len(s1)) ELSE s1
        s3 == IF StartsWith(s2, <<"U+0060","U+0060","U+0060">>) THEN SubSeq(s2, 4, Len(s2)) ELSE s2
        s4 == IF EndsWith(s3, <<"U+0060","U+0060","U+0060">>) THEN SubSeq(s3, 1, Len(s3) - 3) ELSE s3
    IN  Strip(s4)

\* generate_sql on the text _call_llm returned: (refined_question, sql)
generate_sql(question, response) ==
    LET parsed == ParseLines(Split(Strip(response), "\n"), 1, question)
    IN  [refined_question |-> parsed.refined_question,
         sql |-> CleanSql(parsed.sql)]

-----------------------------------------------------------------------------
(* ChatHistoryService                                                      *)

\* Python truthiness of an Optional[str]
Truthy(s) == s # None /\ s # <<>>

\* variant: a long title is cut to 50 characters and gets no ellipsis
GenerateTitleCutAt50(question) ==
    IF ~Truthy(question) THEN <<"New Chat">>
    ELSE LET title == Strip(question) IN
         IF Len(title) > 50 THEN SubSeq(title, 1, 50) ELSE title

\* _generate_title
_generate_title(question) ==
    IF ~Truthy(question) THEN <<"New Chat">>
    ELSE LET title == Strip(question) IN
         IF Len(title) > 50 THEN SubSeq(title, 1, 47) \o <<".",".",".">> ELSE title

\* create_or_update_session: the table chat_sessions afterwards
create_or_update_session(sessions, conversation_id, first_question) ==
    IF conversation_id \in DOMAIN sessions
    THEN [sessions EXCEPT ![conversation_id].message_count = @ + 1]
    ELSE sessions @@ (conversation_id :>
            [title |-> IF Truthy(first_question)
                       THEN _generate_title(first_question) ELSE <<"New Chat">>,
             first_question |-> first_question,
             message_count |-> 1])

\* json.dumps of a list of rows: the text it writes, token by token
json_dumps(table_data) ==
    LET Tok(t, v) == [t |-> t, v |-> v]
        RECURSIVE DumpsItems(_, _)
        DumpsItems(row, keys) ==
            IF keys = {} THEN <<>>
            ELSE LET k == CHOOSE x \in keys : TRUE
                     rest == DumpsItems(row, keys \ {k})
                 IN  <<Tok("key", k), Tok("value", row[k])>>
                     \o (IF rest = <<>> THEN <<>> ELSE <<Tok(",", "")>> \o rest)
        RECURSIVE DumpsRows(_)
        DumpsRows(rows) ==
            IF rows = <<>> THEN <<>>
            ELSE <<Tok("{", "")>> \o DumpsItems(Head(rows), DOMAIN Head(rows))
                 \o <<Tok("}", "")>>
                 \o (IF Tail(rows) = <<>> THEN <<>>
                     ELSE <<Tok(",", "")>> \o DumpsRows(Tail(rows)))
    IN  <<Tok("[", "")>> \o DumpsRows(table_data) \o <<Tok("]", "")>>

\* json.loads of such a text: the list of rows it denotes
json_loads(text) ==
    LET RECURSIVE LoadsFrom(_, _, _, _)
        LoadsFrom(tokens, i, rows, cur) ==
            LET tok == tokens[i] IN
            IF tok.t = "]" THEN rows
            ELSE IF tok.t = "{" THEN LoadsFrom(tokens, i + 1, rows, <<>>)
            ELSE IF tok.t = "key"
            THEN LoadsFrom(tokens, i + 2, rows, (tok.v :> tokens[i + 1].v) @@ cur)
            ELSE IF tok.t = "}" THEN LoadsFrom(tokens, i + 1, Append(rows, cur), <<>>)
            ELSE LoadsFrom(tokens, i + 1, rows, cur)
    IN  LoadsFrom(text, 1, <<>>, <<>>)

\* table_json = json.dumps(table_data) if table_data else None
\* (the falsy values None and [] are both written <<>> here)
TableJson(table_data) ==
    IF table_data = <<>>
    THEN [null |-> TRUE, json |-> <<>>]
    ELSE [null |-> FALSE, json |-> json_dumps(table_data)]

\* save_message: the row inserted into chat_messages
MessageRow(conversation_id, role, content, sql_query, table_data, refined_question) ==
    [conversation_id |-> conversation_id, role |-> role, content |-> content,
     sql_query |-> sql_query, table_data |-> TableJson(table_data),
     refined_question |-> refined_question]

\* save_message: the UPDATE of the session's message_count
CountMessage(sessions, conversation_id) ==
    IF conversation_id \in DOMAIN sessions
    THEN [sessions EXCEPT ![conversation_id].message_count = @ + 1]
    ELSE sessions

\* get_session_messages: the rows of one conversation, ORDER BY timestamp ASC
\* (the order in which save_message inserted them)
get_session_messages(messages, conversation_id) ==
    SelectSeq(messages, LAMBDA m : m.conversation_id = conversation_id)

\* get_session_messages, lines 221-231: the dict built from a row (without
\* its timestamp); the key 'table' is set only for a truthy table_data
MessageDict(row) ==
    LET message == [role |-> row.role, content |-> row.content,
                    sql |-> row.sql_query,
                    refined_question |-> row.refined_question]
    IN  IF ~row.table_data.null /\ row.table_data.json # <<>>
        THEN ("table" :> json_loads(row.table_data.json)) @@ message
        ELSE message

\* get_session_messages: the list returned
SessionMessages(messages, conversation_id) ==
    LET rows == get_session_messages(messages, conversation_id)
    IN  [i \in DOMAIN rows |-> MessageDict(rows[i])]

-----------------------------------------------------------------------------
(* The inputs the model draws from                                         *)

MaxRuns == 2
MaxFrags == 2
MaxParts == 3

\* a question of 51 characters once trimmed
LongQuestion == <<" "," ","h","e","l","l","o"," ","z","z","z","z","z","z","z","z","z","z","z","z","z","z","z","z","z","z","z","z","z","z","z","z","z","z","z","z","z","z","z","z","z","z","z","z","z","z","z","z","z","z","z","z","z"," ","\n">>

\* the question texts of the requests
Questions ==
    { <<"H","e","l","l","o">>,
      <<"t","o","t","a","l"," ","s","a","l","e","s">>,
      <<"-"," ","t","o","t","a","l"," ","s","a","l","e","s","\n","-"," ","h","i">>,
      LongQuestion,
      <<>> }

\* the conversation_id of a request: absent, an explicit id, or an empty id
ConversationIdArgs == { None, <<"c","1">>, <<>> }

\* the requests served: a question and a conversation_id
Requests ==
    { <<<<"H","e","l","l","o">>, None>>, <<<<"H","e","l","l","o">>, <<"c","1">>>>, <<<<"H","e","l","l","o">>, <<>> >>,
      <<<<"t","o","t","a","l"," ","s","a","l","e","s">>, None>>, <<<<"t","o","t","a","l"," ","s","a","l","e","s">>, <<"c","1">>>>,
      <<<<"-"," ","t","o","t","a","l"," ","s","a","l","e","s","\n","-"," ","h","i">>, None>>,
      <<LongQuestion, <<"c","1">>>>,
      << <<>>, None >> }

\* the texts a hosted model answers with: to the prompt of generate_sql
\* (temperature "0.1") and to the prompt of compose_answer ("0.4")
LlmTexts(temperature) ==
    IF temperature = "0.1"
    THEN { <<"R","E","F","I","N","E","D",":"," ","T","o","t","a","l"," ","s","a","l","e","s","\n","S","Q","L",":"," ","U+0060","U+0060","U+0060","s","q","l","\n","S","E","L","E","C","T"," ","S","U","M","(","a","m","o","u","n","t",")"," ","F","R","O","M"," ","s","a","l","e","s","\n","U+0060","U+0060","U+0060">>,
           <<"I"," ","c","a","n","n","o","t"," ","a","n","s","w","e","r"," ","t","h","a","t",".">>,
           <<"S","Q","L",":"," ","D","R","O","P"," ","T","A","B","L","E"," ","s","a","l","e","s">> }
    ELSE { <<" ","T","o","t","a","l"," ","s","a","l","e","s"," ","a","r","e"," ","1","0","0"," ","B","D","T",".","\n">> }

\* what the backend answers to the requests of one _call_llm call made by
\* the pipeline: each request is answered or rate-limited
ScriptEvents == {"success", "rate_limited"}
Scripts(temperature) ==
    [1..max_retries -> [event : ScriptEvents, text : LlmTexts(temperature)]]

\* every way a _call_llm call can end, per configured provider and temperature
LlmOutcomeTable ==
    UNION { { [provider |-> x[1], temperature |-> x[2],
               out |-> LlmOutcome(LlmRun(LlmStart(x[1], x[2]), s))] :
              s \in Scripts(x[2]) } :
            x \in Providers \X Temperatures }

LlmOutcomes(provider, temperature) ==
    { x.out : x \in { y \in LlmOutcomeTable :
                         y.provider = provider /\ y.temperature = temperature } }

\* what VectorStoreService.get_all_context gives the pipeline
RetrievalOutcomes ==
    { [kind |-> "ok", context |-> <<"No relevant context found.">>, exc |-> NoExc],
      [kind |-> "raise", context |-> <<>>,
       exc |-> [cls |-> "RuntimeError", msg |-> <<"vector store unavailable">>]] }

\* the pieces the query texts handed to execute_query are made of
SqlFrags ==
    { <<" ">>, <<"S","E","L","E","C","T">>, <<"s","e","l","e","c","t"," ">>, <<"S","e","l","e","c","t"," ","x">>,
      <<"i","n","s","e","r","t">>, <<"U","P","D","A","T","E">>, <<"D","e","l","e","t","e">>, <<"D","R","O","P">>, <<"a","l","t","e","r">>,
      <<"c","r","e","a","t","e","d","_","a","t">>, <<"t","r","u","n","c","a","t","e">>, <<"E","X","E","C">>, <<"u","t","e">>,
      <<" ","f","r","o","m"," ","t">>, <<"\n">>, <<";"," ">> }

RECURSIVE FragTexts(_)
FragTexts(n) ==
    IF n = 0 THEN { <<>> }
    ELSE FragTexts(n - 1) \cup {t \o f : t \in FragTexts(n - 1), f \in SqlFrags}

SqlTexts == FragTexts(MaxFrags)

\* the texts made of at most n of the pieces
RECURSIVE TextsOf(_, _)
TextsOf(frags, n) ==
    IF n = 0 THEN { <<>> }
    ELSE TextsOf(frags, n - 1)
         \cup {t \o f : t \in TextsOf(frags, n - 1), f \in frags}

\* the pieces of the questions that are classified
ClassifyFrags ==
    { <<"S","a","l","e","s"," ">>, <<"H","i"," ">>, <<"w","h","o"," ","i","s"," ">>, <<"t","h","a","n","k","s"," ">>, <<"i"," ","a","m"," ","b","o","b"," ">>,
      <<"w","h","a","t"," ","i","s"," ","t","h","e"," ">>, <<"o","n","e"," ","t","w","o"," ","t","h","r","e","e"," ","f","o","u","r"," ","f","i","v","e"," ">>, <<"?"," ">> }
ClassifyTexts == TextsOf(ClassifyFrags, MaxParts)

\* the pieces of the texts that are decomposed into sub-questions
ExtractFrags ==
    { <<"-"," ","a","b","c","d">>, <<"1","."," ","a","b">>, <<"2",")","x"," ">>, <<"-">>, <<"1","2",".">>, <<"a","b","c","d","?">>, <<"a","b","?">>,
      <<" ","t","a","i","l">>, <<"\n">>, <<" ","*"," ","a","?">>, <<"U+2022","b">> }
ExtractTexts == TextsOf(ExtractFrags, MaxParts)

\* str(uuid.uuid4()): the n-th value generated, different from every other id
DigitChars == <<"0","1","2","3","4","5","6","7","8","9">>
\* variant: uuid4 gives the same value every time
Uuid4Same(n) == <<"uuid4-", "1">>
Uuid4(n) == <<"uuid4-", DigitChars[n + 1]>>

-----------------------------------------------------------------------------
(* RAGPipeline._process_single_question                                    *)

Call(op, arg) == [op |-> op, arg |-> arg]

\* the calls execute_query makes visible: the call, and the backend session
ExecCalls(sql, res) ==
    <<Call("execute_query", sql)>>
    \o [i \in 1..Len(res.executed) |-> Call("db.session", res.executed[i])]

QuestionResult(question, refined_question, sql, table, answer) ==
    [question |-> question, refined_question |-> refined_question,
     sql |-> sql, table |-> table, answer |-> answer]

\* the handler `except Exception` at the end of _process_single_question
SingleFailed(question, exc) ==
    QuestionResult(question, question, None, <<>>,
                   <<"Error processing question: ">> \o exc.msg)

\* _process_single_question(question) from the answer gen of the first
\* _call_llm call on: the query is parsed, executed and the answer composed
SingleAfterGenerate(question, gen, db, comp) ==
    LET g   == generate_sql(question, gen.text)
        res == ExecuteQuery(g.sql, db)
        c3  == <<Call("get_all_context", question),
                 Call("generate_sql", question)>> \o ExecCalls(g.sql, res)
    IN  IF res.kind = "raise"
        THEN [result |-> QuestionResult(question, g.refined_question, g.sql,
                            <<>>, <<"Error executing query: ">> \o res.msg),
              calls |-> c3]
        ELSE IF comp.kind = "raise"
        THEN [result |-> SingleFailed(question, comp.exc),
              calls |-> c3 \o <<Call("compose_answer", g.refined_question)>>]
        ELSE [result |-> QuestionResult(question, g.refined_question, g.sql,
                            res.rows, comp.text),
              calls |-> c3 \o <<Call("compose_answer", g.refined_question)>>]

\* _process_single_question(question): every result it can give, with the
\* calls made, over what the retriever, the two _call_llm calls and the
\* backend can answer
_process_single_question(question, provider) ==
    IF _is_conversational_query_single(question)
    THEN { [result |-> QuestionResult(question, question, None, <<>>,
                          _get_conversational_response_single(question)),
            calls |-> <<>>] }
    ELSE { [result |-> SingleFailed(question, ret.exc),
            calls |-> <<Call("get_all_context", question)>>] :
           ret \in {x \in RetrievalOutcomes : x.kind = "raise"} }
         \cup
         { [result |-> SingleFailed(question, gen.exc),
            calls |-> <<Call("get_all_context", question),
                        Call("generate_sql", question)>>] :
           gen \in {x \in LlmOutcomes(provider, "0.1") : x.kind = "raise"} }
         \cup
         { SingleAfterGenerate(question, gen, db, comp) :
           gen \in {x \in LlmOutcomes(provider, "0.1") : x.kind = "ok"},
           db \in DbOutcomes, comp \in LlmOutcomes(provider, "0.4") }

-----------------------------------------------------------------------------
(* RAGPipeline.process_query: the frame of a call and its steps             *)

Response(refined_question, sql, table, final_answer, conversation_id) ==
    [refined_question |-> refined_question, sql |-> sql, table |-> table,
     final_answer |-> final_answer, conversation_id |-> conversation_id]

NoResponse == Response(None, None, <<>>, None, None)

NewFrame(question, conversation_id, ref) ==
    [pc |-> "add_user", branch |-> "", question |-> question,
     conversation_id |-> conversation_id, conversation |-> ref,
     questions |-> <<>>, results |-> <<>>, context |-> <<>>,
     refined_question |-> None, sql |-> None, sql_results |-> <<>>,
     final_answer |-> None, e |-> NoExc, response |-> NoResponse,
     raised |-> NoExc, calls |-> <<>>]

\* variant: the message replaces the list instead of being appended to it
AddMessageOverwrite(h, ref, role, content) ==
    [h EXCEPT ![ref].messages = <<[role |-> role, content |-> content]>>]

\* _add_message
_add_message(h, ref, role, content) ==
    [h EXCEPT ![ref].messages = Append(@, [role |-> role, content |-> content])]

\* the conversation id of the object a frame holds
ConvId(r) == heap[runs[r].conversation].conversation_id

Finished(r) == runs[r].pc \in {"returned", "raised"}

\* variant: a conversation is created on every call, also for an id in the
\* store
ProcessQueryAlwaysNew(question, conversation_id) ==
    /\ Len(runs) < MaxRuns
    /\ LET new_id == IF Truthy(conversation_id) THEN conversation_id
                     ELSE Uuid4(uuid_next + 1)
           ref    == Len(heap) + 1
       IN  /\ heap' = Append(heap, [conversation_id |-> new_id,
                                    messages |-> <<>>])
           /\ conversations' =
                  [id \in DOMAIN conversations \cup {new_id} |->
                      IF id = new_id THEN ref ELSE conversations[id]]
           /\ uuid_next' = IF Truthy(conversation_id) THEN uuid_next
                           ELSE uuid_next + 1
           /\ runs' = Append(runs, NewFrame(question, conversation_id, ref))
    /\ UNCHANGED <<vs, hist, admin, txt, exq, llm, chat_sessions, chat_messages>>

\* line 386: conversation = self._get_or_create_conversation(conversation_id)
ProcessQuery(question, conversation_id) ==
    /\ Len(runs) < MaxRuns
    /\ IF Truthy(conversation_id) /\ conversation_id \in DOMAIN conversations
       THEN /\ runs' = Append(runs, NewFrame(question, conversation_id,
                                             conversations[conversation_id]))
            /\ UNCHANGED <<conversations, heap, uuid_next>>
       ELSE LET new_id == IF Truthy(conversation_id) THEN conversation_id
                          ELSE Uuid4(uuid_next + 1)
                ref    == Len(heap) + 1
            IN  /\ heap' = Append(heap, [conversation_id |-> new_id,
                                         messages |-> <<>>])
                /\ conversations' =
                       [id \in DOMAIN conversations \cup {new_id} |->
                           IF id = new_id THEN ref ELSE conversations[id]]
                /\ uuid_next' = IF Truthy(conversation_id) THEN uuid_next
                                ELSE uuid_next + 1
                /\ runs' = Append(runs, NewFrame(question, conversation_id, ref))
    /\ UNCHANGED <<vs, hist, admin, txt, exq, llm, chat_sessions, chat_messages>>

\* line 387: self._add_message(conversation, "user", question)
AddUserMessage(r) ==
    /\ r \in DOMAIN runs
    /\ runs[r].pc = "add_user"
    /\ heap' = _add_message(heap, runs[r].conversation, "user", runs[r].question)
    /\ runs' = [runs EXCEPT ![r].pc = "create_session"]
    /\ UNCHANGED <<vs, hist, admin, txt, exq, llm, conversations, chat_sessions, chat_messages, uuid_next>>

\* lines 390-394: is_first_message, create_or_update_session
CreateOrUpdateSession(r) ==
    /\ r \in DOMAIN runs
    /\ runs[r].pc = "create_session"
    /\ LET is_first_message == Len(heap[runs[r].conversation].messages) = 1
       IN  chat_sessions' = create_or_update_session(chat_sessions, ConvId(r),
               IF is_first_message THEN runs[r].question ELSE None)
    /\ runs' = [runs EXCEPT ![r].pc = "save_user"]
    /\ UNCHANGED <<vs, hist, admin, txt, exq, llm, conversations, heap, chat_messages, uuid_next>>

\* lines 395-399: save_message(role="user") (no table_data: None, falsy as [])
SaveUserMessage(r) ==
    /\ r \in DOMAIN runs
    /\ runs[r].pc = "save_user"
    /\ chat_messages' = Append(chat_messages,
           MessageRow(ConvId(r), "user", runs[r].question, None, <<>>, None))
    /\ chat_sessions' = CountMessage(chat_sessions, ConvId(r))
    /\ runs' = [runs EXCEPT ![r].pc = "classify"]
    /\ UNCHANGED <<vs, hist, admin, txt, exq, llm, conversations, heap, uuid_next>>

\* lines 402 and 450: the tests that select the branch of process_query
Branch(question) ==
    IF _is_multi_question(question) THEN "multi"
    ELSE IF _is_conversational_query(question) THEN "conversational"
    ELSE "data"

\* lines 402-404 and 450: the branch taken (branch keeps which one it was)
Classify(r) ==
    /\ r \in DOMAIN runs
    /\ runs[r].pc = "classify"
    /\ LET branch == Branch(runs[r].question) IN
       runs' = CASE branch = "multi" ->
                     [runs EXCEPT ![r].pc = "multi", ![r].branch = "multi",
                                  ![r].questions = _extract_questions(runs[r].question)]
                 [] branch = "conversational" ->
                     [runs EXCEPT ![r].pc = "conversational",
                                  ![r].branch = "conversational"]
                 [] OTHER ->
                     [runs EXCEPT ![r].pc = "retrieve", ![r].branch = "data"]
    /\ UNCHANGED <<vs, hist, admin, txt, exq, llm, conversations, heap, chat_sessions, chat_messages,
                   uuid_next>>

\* lines 411-418: one turn of the loop over the sub-questions
SubQuestion(r) ==
    /\ r \in DOMAIN runs
    /\ runs[r].pc = "multi"
    /\ Len(runs[r].results) < Len(runs[r].questions)
    /\ \E out \in _process_single_question(
                      runs[r].questions[Len(runs[r].results) + 1], llm.provider) :
          runs' = [runs EXCEPT ![r].results = Append(@, out.result),
                               ![r].calls = @ \o out.calls]
    /\ UNCHANGED <<vs, hist, admin, txt, exq, llm, conversations, heap, chat_sessions, chat_messages,
                   uuid_next>>

\* lines 421-424: the combined answer, one labelled section per result
RECURSIVE Sections(_, _)
Sections(results, i) ==
    IF i > Len(results) THEN <<>>
    ELSE <<"**Q", DigitChars[i + 1], ": ">> \o results[i].question
         \o <<"**", "\n">> \o results[i].answer \o <<"\n", "\n">>
         \o Sections(results, i + 1)

\* variant: the loop stops after the first sub-question
CombinedAnswerFirstOnly(results) ==
    <<"Here are the answers to your questions:", "\n", "\n">>
    \o Sections(SubSeq(results, 1, 1), 1)

CombinedAnswer(results) ==
    <<"Here are the answers to your questions:", "\n", "\n">>
    \o Sections(results, 1)

\* all_tables and all_sql of lines 415-418
RECURSIVE AllTables(_)
AllTables(results) ==
    IF results = <<>> THEN <<>>
    ELSE Head(results).table \o AllTables(Tail(results))

RECURSIVE AllSql(_)
AllSql(results) ==
    IF results = <<>> THEN <<>>
    ELSE (IF Truthy(Head(results).sql) THEN <<Head(results).sql>> ELSE <<>>)
         \o AllSql(Tail(results))

\* line 427
CombinedSql(results) ==
    IF AllSql(results) # <<>>
    THEN Join(<<"\n","\n","-","-","-","\n","\n">>, AllSql(results))
    ELSE None

\* lines 421-429: after the loop, the assistant message
MultiAnswer(r) ==
    /\ r \in DOMAIN runs
    /\ runs[r].pc = "multi"
    /\ Len(runs[r].results) = Len(runs[r].questions)
    /\ heap' = _add_message(heap, runs[r].conversation, "assistant",
                            CombinedAnswer(runs[r].results))
    /\ runs' = [runs EXCEPT ![r].pc = "multi_save",
                            ![r].final_answer = CombinedAnswer(runs[r].results),
                            ![r].sql = CombinedSql(runs[r].results),
                            ![r].sql_results = AllTables(runs[r].results)]
    /\ UNCHANGED <<vs, hist, admin, txt, exq, llm, conversations, chat_sessions, chat_messages, uuid_next>>

\* lines 432-447: save_message(role="assistant") and the return
MultiSave(r) ==
    /\ r \in DOMAIN runs
    /\ runs[r].pc = "multi_save"
    /\ chat_messages' = Append(chat_messages,
           MessageRow(ConvId(r), "assistant", runs[r].final_answer, runs[r].sql,
                      runs[r].sql_results, runs[r].question))
    /\ chat_sessions' = CountMessage(chat_sessions, ConvId(r))
    /\ runs' = [runs EXCEPT ![r].pc = "returned",
                   ![r].response = Response(runs[r].question, runs[r].sql,
                       runs[r].sql_results, runs[r].final_answer, ConvId(r))]
    /\ UNCHANGED <<vs, hist, admin, txt, exq, llm, conversations, heap, uuid_next>>

\* variant: the conversational branch retrieves context first
ConversationalWithRetrieval(r) ==
    /\ r \in DOMAIN runs
    /\ runs[r].pc = "conversational"
    /\ LET response == _get_conversational_response(runs[r].question)
       IN  /\ heap' = [heap EXCEPT ![runs[r].conversation].messages =
                           Append(@, [role |-> "assistant", content |-> response])]
           /\ runs' = [runs EXCEPT ![r].pc = "conversational_save",
                                   ![r].final_answer = response,
                                   ![r].calls = Append(@, Call("get_all_context",
                                                               runs[r].question))]
    /\ UNCHANGED <<vs, hist, admin, txt, exq, llm, conversations, chat_sessions, chat_messages, uuid_next>>

\* lines 452-453: the canned reply and the assistant message
Conversational(r) ==
    /\ r \in DOMAIN runs
    /\ runs[r].pc = "conversational"
    /\ LET response == _get_conversational_response(runs[r].question)
       IN  /\ heap' = _add_message(heap, runs[r].conversation, "assistant", response)
           /\ runs' = [runs EXCEPT ![r].pc = "conversational_save",
                                   ![r].final_answer = response]
    /\ UNCHANGED <<vs, hist, admin, txt, exq, llm, conversations, chat_sessions, chat_messages, uuid_next>>

\* lines 456-468: save_message(role="assistant") and the return
ConversationalSave(r) ==
    /\ r \in DOMAIN runs
    /\ runs[r].pc = "conversational_save"
    /\ chat_messages' = Append(chat_messages,
           MessageRow(ConvId(r), "assistant", runs[r].final_answer, None, <<>>, None))
    /\ chat_sessions' = CountMessage(chat_sessions, ConvId(r))
    /\ runs' = [runs EXCEPT ![r].pc = "returned",
                   ![r].response = Response(runs[r].question, None, <<>>,
                                            runs[r].final_answer, ConvId(r))]
    /\ UNCHANGED <<vs, hist, admin, txt, exq, llm, conversations, heap, uuid_next>>

\* line 473: context = self.vector_store.get_all_context(question)
Retrieve(r) ==
    /\ r \in DOMAIN runs
    /\ runs[r].pc = "retrieve"
    /\ \E ret \in RetrievalOutcomes :
          runs' = IF ret.kind = "ok"
                  THEN [runs EXCEPT ![r].pc = "generate",
                            ![r].context = ret.context,
                            ![r].calls = Append(@, Call("get_all_context",
                                                        runs[r].question))]
                  ELSE [runs EXCEPT ![r].pc = "except", ![r].e = ret.exc,
                            ![r].calls = Append(@, Call("get_all_context",
                                                        runs[r].question))]
    /\ UNCHANGED <<vs, hist, admin, txt, exq, llm, conversations, heap, chat_sessions, chat_messages,
                   uuid_next>>

\* line 478: refined_question, sql = self.llm.generate_sql(question, context)
Generate(r) ==
    /\ r \in DOMAIN runs
    /\ runs[r].pc = "generate"
    /\ \E gen \in LlmOutcomes(llm.provider, "0.1") :
          runs' = IF gen.kind = "ok"
                  THEN LET g == generate_sql(runs[r].question, gen.text)
                       IN  [runs EXCEPT ![r].pc = "execute",
                               ![r].refined_question = g.refined_question,
                               ![r].sql = g.sql,
                               ![r].calls = Append(@, Call("generate_sql",
                                                           runs[r].question))]
                  ELSE [runs EXCEPT ![r].pc = "except", ![r].e = gen.exc,
                            ![r].calls = Append(@, Call("generate_sql",
                                                        runs[r].question))]
    /\ UNCHANGED <<vs, hist, admin, txt, exq, llm, conversations, heap, chat_sessions, chat_messages,
                   uuid_next>>

\* variant: a failed execution is ignored and the answer is composed
ExecuteIgnoreFailure(r) ==
    /\ r \in DOMAIN runs
    /\ runs[r].pc = "execute"
    /\ \E db \in DbOutcomes :
          LET res == ExecuteQuery(runs[r].sql, db) IN
          runs' = [runs EXCEPT ![r].pc = "compose",
                      ![r].sql_results = res.rows,
                      ![r].calls = @ \o ExecCalls(runs[r].sql, res)]
    /\ UNCHANGED <<vs, hist, admin, txt, exq, llm, conversations, heap, chat_sessions, chat_messages,
                   uuid_next>>

\* lines 484-489: sql_results = self.db.execute_query(sql), or the handler entered
Execute(r) ==
    /\ r \in DOMAIN runs
    /\ runs[r].pc = "execute"
    /\ \E db \in DbOutcomes :
          LET res == ExecuteQuery(runs[r].sql, db) IN
          runs' = IF res.kind = "return"
                  THEN [runs EXCEPT ![r].pc = "compose",
                            ![r].sql_results = res.rows,
                            ![r].calls = @ \o ExecCalls(runs[r].sql, res)]
                  ELSE [runs EXCEPT ![r].pc = "exec_failed",
                            ![r].sql_results = <<>>,
                            ![r].e = [cls |-> res.cls, msg |-> res.msg],
                            ![r].calls = @ \o ExecCalls(runs[r].sql, res)]
    /\ UNCHANGED <<vs, hist, admin, txt, exq, llm, conversations, heap, chat_sessions, chat_messages,
                   uuid_next>>

\* line 491
ErrorAnswer(exc) ==
    <<"I encountered an error executing the query: ">> \o exc.msg
    \o <<". Please try rephrasing your question.">>

\* variant: the execution-failure branch returns no query text
ExecFailedNoSql(r) ==
    /\ r \in DOMAIN runs
    /\ runs[r].pc = "exec_failed"
    /\ heap' = [heap EXCEPT ![runs[r].conversation].messages =
                   Append(@, [role |-> "assistant",
                              content |-> ErrorAnswer(runs[r].e)])]
    /\ runs' = [runs EXCEPT ![r].pc = "returned",
                   ![r].final_answer = ErrorAnswer(runs[r].e),
                   ![r].response = Response(runs[r].refined_question, None,
                       runs[r].sql_results, ErrorAnswer(runs[r].e), ConvId(r))]
    /\ UNCHANGED <<vs, hist, admin, txt, exq, llm, conversations, chat_sessions, chat_messages, uuid_next>>

\* lines 491-499: the error answer is added to the conversation and returned
ExecFailed(r) ==
    /\ r \in DOMAIN runs
    /\ runs[r].pc = "exec_failed"
    /\ heap' = _add_message(heap, runs[r].conversation, "assistant",
                            ErrorAnswer(runs[r].e))
    /\ runs' = [runs EXCEPT ![r].pc = "returned",
                   ![r].final_answer = ErrorAnswer(runs[r].e),
                   ![r].response = Response(runs[r].refined_question, runs[r].sql,
                       runs[r].sql_results, ErrorAnswer(runs[r].e), ConvId(r))]
    /\ UNCHANGED <<vs, hist, admin, txt, exq, llm, conversations, chat_sessions, chat_messages, uuid_next>>

\* line 503: final_answer = self.llm.compose_answer(...)
Compose(r) ==
    /\ r \in DOMAIN runs
    /\ runs[r].pc = "compose"
    /\ \E comp \in LlmOutcomes(llm.provider, "0.4") :
          runs' = IF comp.kind = "ok"
                  THEN [runs EXCEPT ![r].pc = "add_assistant",
                            ![r].final_answer = comp.text,
                            ![r].calls = Append(@, Call("compose_answer",
                                                 runs[r].refined_question))]
                  ELSE [runs EXCEPT ![r].pc = "except", ![r].e = comp.exc,
                            ![r].calls = Append(@, Call("compose_answer",
                                                 runs[r].refined_question))]
    /\ UNCHANGED <<vs, hist, admin, txt, exq, llm, conversations, heap, chat_sessions, chat_messages,
                   uuid_next>>

\* line 510: self._add_message(conversation, "assistant", final_answer)
AddAssistantMessage(r) ==
    /\ r \in DOMAIN runs
    /\ runs[r].pc = "add_assistant"
    /\ heap' = _add_message(heap, runs[r].conversation, "assistant",
                            runs[r].final_answer)
    /\ runs' = [runs EXCEPT ![r].pc = "save_assistant"]
    /\ UNCHANGED <<vs, hist, admin, txt, exq, llm, conversations, chat_sessions, chat_messages, uuid_next>>

\* lines 513-528: save_message(role="assistant") and the return
SaveAssistantMessage(r) ==
    /\ r \in DOMAIN runs
    /\ runs[r].pc = "save_assistant"
    /\ chat_messages' = Append(chat_messages,
           MessageRow(ConvId(r), "assistant", runs[r].final_answer, runs[r].sql,
                      runs[r].sql_results, runs[r].refined_question))
    /\ chat_sessions' = CountMessage(chat_sessions, ConvId(r))
    /\ runs' = [runs EXCEPT ![r].pc = "returned",
                   ![r].response = Response(runs[r].refined_question, runs[r].sql,
                       runs[r].sql_results, runs[r].final_answer, ConvId(r))]
    /\ UNCHANGED <<vs, hist, admin, txt, exq, llm, conversations, heap, uuid_next>>

\* line 532
ErrorMessage(exc) ==
    <<"I apologize, but I encountered an error processing your question. Please try again or rephrase your question. Error: ">>
    \o exc.msg

\* variant: the handler re-raises without recording the apology
ExceptNoMessage(r) ==
    /\ r \in DOMAIN runs
    /\ runs[r].pc = "except"
    /\ runs' = [runs EXCEPT ![r].pc = "reraise"]
    /\ UNCHANGED <<vs, hist, admin, txt, exq, llm, conversations, heap, chat_sessions, chat_messages,
                   uuid_next>>

\* lines 530-533: the handler of the data-query branch adds the apology
Except(r) ==
    /\ r \in DOMAIN runs
    /\ runs[r].pc = "except"
    /\ heap' = _add_message(heap, runs[r].conversation, "assistant",
                            ErrorMessage(runs[r].e))
    /\ runs' = [runs EXCEPT ![r].pc = "reraise"]
    /\ UNCHANGED <<vs, hist, admin, txt, exq, llm, conversations, chat_sessions, chat_messages, uuid_next>>

\* line 534: raise
Reraise(r) ==
    /\ r \in DOMAIN runs
    /\ runs[r].pc = "reraise"
    /\ runs' = [runs EXCEPT ![r].pc = "raised", ![r].raised = runs[r].e]
    /\ UNCHANGED <<vs, hist, admin, txt, exq, llm, conversations, heap, chat_sessions, chat_messages,
                   uuid_next>>

-----------------------------------------------------------------------------
(* Specifications                                                          *)

TxtIdle == [pc |-> "idle", op |-> "", arg |-> <<>>, out |-> <<>>]

\* no retrieval call, no history call and no administrative call yet
VsIdle == [pc |-> "idle", top_k |-> 0, backend |-> <<>>, results |-> <<>>,
           context |-> <<>>]
HistIdle == [saved |-> <<>>, pc |-> "idle", id |-> <<>>, out |-> <<>>]
AdminIdle == [op |-> "", id |-> <<>>, ret |-> FALSE]

ExqIdle == [pc |-> "idle", sql |-> <<>>,
            res |-> ExecuteQuery(<<>>, [kind |-> "error", msg |-> <<>>])]

\* Settings.llm_provider: str = "gemini"
DefaultProvider == "gemini"

RunIds == 1..MaxRuns

\* Spec: requests to process_query served one after the other (the endpoint
\* `chat` is a coroutine that calls process_query without awaiting anything)
Init ==
    /\ vs = VsIdle
    /\ hist = HistIdle
    /\ admin = AdminIdle
    /\ txt = TxtIdle
    /\ exq = ExqIdle
    /\ llm = LlmStart(DefaultProvider, "0.1")
    /\ conversations = <<>>
    /\ heap = <<>>
    /\ chat_sessions = <<>>
    /\ chat_messages = <<>>
    /\ uuid_next = 0
    /\ runs = <<>>

SerialProcessQuery ==
    /\ \A r \in DOMAIN runs : Finished(r)
    /\ \E req \in Requests : ProcessQuery(req[1], req[2])

Next ==
    \/ SerialProcessQuery
    \/ \E r \in RunIds :
          \/ AddUserMessage(r)
          \/ CreateOrUpdateSession(r)
          \/ SaveUserMessage(r)
          \/ Classify(r)
          \/ SubQuestion(r)
          \/ MultiAnswer(r)
          \/ MultiSave(r)
          \/ Conversational(r)
          \/ ConversationalSave(r)
          \/ Retrieve(r)
          \/ Generate(r)
          \/ Execute(r)
          \/ ExecFailed(r)
          \/ Compose(r)
          \/ AddAssistantMessage(r)
          \/ SaveAssistantMessage(r)
          \/ Except(r)
          \/ Reraise(r)

Spec == Init /\ [][Next]_vars

\* SpecLLM: calls of _call_llm, one loop iteration at a time, for every
\* provider name the service can be constructed with
InitLLM ==
    /\ vs = VsIdle
    /\ hist = HistIdle
    /\ admin = AdminIdle
    /\ txt = TxtIdle
    /\ exq = ExqIdle
    /\ llm \in {LlmStart(p, t) : p \in Providers, t \in Temperatures}
    /\ conversations = <<>>
    /\ heap = <<>>
    /\ chat_sessions = <<>>
    /\ chat_messages = <<>>
    /\ uuid_next = 0
    /\ runs = <<>>

LlmAttempt ==
    /\ llm.pc = "loop"
    /\ ~LoopDone(llm)
    /\ \E event \in BackendEvents, text \in LlmTexts(llm.temperature) :
          llm' = LlmIteration(llm, event, text)
    /\ UNCHANGED <<vs, hist, admin, txt, exq, conversations, heap, chat_sessions, chat_messages,
                   uuid_next, runs>>

LlmGiveUp ==
    /\ llm.pc = "loop"
    /\ LoopDone(llm)
    /\ llm' = LlmExhausted(llm)
    /\ UNCHANGED <<vs, hist, admin, txt, exq, conversations, heap, chat_sessions, chat_messages,
                   uuid_next, runs>>

\* the next call: generate_sql or compose_answer
LlmCall ==
    /\ llm.pc \in {"returned", "raised"}
    /\ \E t \in Temperatures : llm' = LlmStart(llm.provider, t)
    /\ UNCHANGED <<vs, hist, admin, txt, exq, conversations, heap, chat_sessions, chat_messages,
                   uuid_next, runs>>

NextLLM == LlmAttempt \/ LlmGiveUp \/ LlmCall

SpecLLM == InitLLM /\ [][NextLLM]_vars

\* SpecExec: calls of execute_query on the query texts of SqlTexts
ExecCall ==
    /\ exq.pc = "idle"
    /\ \E sql \in SqlTexts : exq' = [ExqIdle EXCEPT !.pc = "called", !.sql = sql]
    /\ UNCHANGED <<vs, hist, admin, txt, llm, conversations, heap, chat_sessions, chat_messages,
                   uuid_next, runs>>

ExecReturn ==
    /\ exq.pc = "called"
    /\ \E db \in DbOutcomes :
          exq' = [exq EXCEPT !.pc = "done", !.res = ExecuteQuery(exq.sql, db)]
    /\ UNCHANGED <<vs, hist, admin, txt, llm, conversations, heap, chat_sessions, chat_messages,
                   uuid_next, runs>>

\* the caller has the result; the next call can be made
ExecNext ==
    /\ exq.pc = "done"
    /\ exq' = ExqIdle
    /\ UNCHANGED <<vs, hist, admin, txt, llm, conversations, heap, chat_sessions, chat_messages,
                   uuid_next, runs>>

NextExec == ExecCall \/ ExecReturn \/ ExecNext

SpecExec == Init /\ [][NextExec]_vars

\* SpecText: the text functions of the pipeline, applied to the texts of
\* ClassifyTexts and ExtractTexts
\* lines 402 and 450-452: the branch of process_query and the templated reply
ClassifyText ==
    /\ txt.pc = "idle"
    /\ \E question \in ClassifyTexts :
          txt' = [pc |-> "done", op |-> "classify", arg |-> question,
                  out |-> [branch |-> Branch(question),
                           reply |-> IF Branch(question) = "conversational"
                                     THEN _get_conversational_response(question)
                                     ELSE None]]
    /\ UNCHANGED <<vs, hist, admin, exq, llm, conversations, heap, chat_sessions, chat_messages,
                   uuid_next, runs>>

\* lines 138-139: the test and the reply of _process_single_question
ClassifySingleText ==
    /\ txt.pc = "idle"
    /\ \E question \in ClassifyTexts :
          txt' = [pc |-> "done", op |-> "classify_single", arg |-> question,
                  out |-> [branch |-> IF _is_conversational_query_single(question)
                                      THEN "conversational" ELSE "data",
                           reply |-> IF _is_conversational_query_single(question)
                                     THEN _get_conversational_response_single(question)
                                     ELSE None]]
    /\ UNCHANGED <<vs, hist, admin, exq, llm, conversations, heap, chat_sessions, chat_messages,
                   uuid_next, runs>>

\* line 405: questions = self._extract_questions(question)
ExtractText ==
    /\ txt.pc = "idle"
    /\ \E text \in ExtractTexts :
          txt' = [pc |-> "done", op |-> "extract", arg |-> text,
                  out |-> _extract_questions(text)]
    /\ UNCHANGED <<vs, hist, admin, exq, llm, conversations, heap, chat_sessions, chat_messages,
                   uuid_next, runs>>

\* the caller has the value; the next application can be made
TextNext ==
    /\ txt.pc = "done"
    /\ txt' = TxtIdle
    /\ UNCHANGED <<vs, hist, admin, exq, llm, conversations, heap, chat_sessions, chat_messages,
                   uuid_next, runs>>

NextText == ClassifyText \/ ClassifySingleText \/ ExtractText \/ TextNext

SpecText == Init /\ [][NextText]_vars

\* SpecHistory: save_message calls on the durable history with the arguments
\* of SaveArgs, and get_session_messages calls that read them back
MaxSaved == 3

\* the arguments of a call; table_given tells table_data=[...] from the
\* default table_data=None
\* a user message, an answer with one row, an answer to a query that matched
\* no row, and two messages of another conversation (rows of two columns)
SaveArgs ==
    LET SaveArg(conversation_id, role, content, sql_query, table_given,
                table_data, refined_question) ==
            [conversation_id |-> conversation_id, role |-> role,
             content |-> content, sql_query |-> sql_query,
             table_given |-> table_given, table_data |-> table_data,
             refined_question |-> refined_question]
    IN  { SaveArg(<<"c","1">>, "user", <<"t","o","t","a","l"," ","s","a","l","e","s">>, None, FALSE, <<>>, None),
          SaveArg(<<"c","1">>, "assistant", <<"I","t"," ","i","s"," ","1","0","0",".">>,
                  <<"S","E","L","E","C","T"," ","S","U","M","(","a","m","o","u","n","t",")"," ","F","R","O","M"," ","s","a","l","e","s">>,
                  TRUE, <<[total |-> "100"]>>, <<"T","o","t","a","l"," ","s","a","l","e","s">>),
          SaveArg(<<"c","1">>, "assistant", <<"N","o"," ","d","a","t","a",".">>, <<"S","E","L","E","C","T"," ","1"," ","W","H","E","R","E"," ","0">>,
                  TRUE, <<>>, <<"t","o","t","a","l"," ","s","a","l","e","s">>),
          SaveArg(<<"c","2">>, "user", <<"t","o","t","a","l"," ","s","a","l","e","s">>, None, FALSE, <<>>, None),
          SaveArg(<<"c","2">>, "assistant", <<"T","w","o"," ","r","e","g","i","o","n","s",".">>, <<>>,
                  TRUE, <<[region |-> "north", total |-> "60"],
                          [region |-> "south", total |-> "40"]>>, <<>>) }

\* save_message, lines 155-175
HistSaveMessage ==
    /\ hist.pc = "idle"
    /\ Len(hist.saved) < MaxSaved
    /\ \E a \in SaveArgs :
          /\ chat_messages' = Append(chat_messages,
                 MessageRow(a.conversation_id, a.role, a.content, a.sql_query,
                            a.table_data, a.refined_question))
          /\ chat_sessions' = CountMessage(chat_sessions, a.conversation_id)
          /\ hist' = [hist EXCEPT !.saved = Append(@, a)]
    /\ UNCHANGED <<vs, admin, txt, exq, llm, conversations, heap, uuid_next, runs>>

\* get_session_messages, lines 206-233
HistGetSessionMessages ==
    /\ hist.pc = "idle"
    /\ \E id \in {<<"c","1">>, <<"c","2">>, <<"c","3">>} :
          hist' = [hist EXCEPT !.pc = "read", !.id = id,
                               !.out = SessionMessages(chat_messages, id)]
    /\ UNCHANGED <<vs, admin, txt, exq, llm, conversations, heap, chat_sessions,
                   chat_messages, uuid_next, runs>>

\* the caller has the list; the next call can be made
NextHistory ==
    \/ HistSaveMessage
    \/ HistGetSessionMessages
    \/ /\ hist.pc = "read"
       /\ hist' = [hist EXCEPT !.pc = "idle", !.id = <<>>, !.out = <<>>]
       /\ UNCHANGED <<vs, admin, txt, exq, llm, conversations, heap,
                      chat_sessions, chat_messages, uuid_next, runs>>

SpecHistory == Init /\ [][NextHistory]_vars

-----------------------------------------------------------------------------
(* VectorStoreService.search and get_all_context                           *)

\* line 161: the default list of collections, in the order they are searched
Collections == <<"data_dictionary", "metrics", "business_rules", "documentation">>

\* What a collection holds for a query: the documents collection.query
\* returns when asked for all of them (nearest first, as lists of distances),
\* whether the answer carries distances, and whether the collection raises.
\* count() is the number of documents.
CollectionStates ==
    { [dists |-> <<>>, scored |-> TRUE, raises |-> FALSE],
      [dists |-> <<1>>, scored |-> TRUE, raises |-> FALSE],
      [dists |-> <<2, 3>>, scored |-> TRUE, raises |-> FALSE],
      [dists |-> <<1, 2, 2>>, scored |-> TRUE, raises |-> FALSE],
      [dists |-> <<1, 1>>, scored |-> FALSE, raises |-> FALSE],
      [dists |-> <<1>>, scored |-> TRUE, raises |-> TRUE] }

\* top_k: the number of results asked of each collection
MaxTopK == 2

\* lines 186-192: the items appended for one collection
CollectionItems(backend, name, top_k) ==
    LET col == backend[name]
        n == IF top_k < Len(col.dists) THEN top_k ELSE Len(col.dists)
    IN  IF col.raises \/ Len(col.dists) = 0 THEN <<>>
        ELSE [i \in 1..n |->
                [content |-> <<name, DigitChars[i + 1]>>,
                 collection |-> name,
                 distance |-> [given |-> col.scored,
                               d |-> IF col.scored THEN col.dists[i] ELSE 0]]]

\* variant: the merged list is left in the order of the collections
SortUnsorted(items) == items

\* results.sort(key=...): a stable sort, ascending
RECURSIVE SortByDistance(_)
SortByDistance(items) ==
    IF items = <<>> THEN <<>>
    ELSE LET done == SortByDistance(SubSeq(items, 1, Len(items) - 1))
             x == items[Len(items)]
             \* x goes after every element whose key is not greater
             \* the sort key of line 197: the distance, or float("inf")
             \* when it is None
             KeyLeq(a, b) ==
                 \/ ~b.distance.given
                 \/ a.distance.given /\ a.distance.d <= b.distance.d
             k == Len(SelectSeq(done, LAMBDA y : KeyLeq(y, x)))
         IN  SubSeq(done, 1, k) \o <<x>> \o SubSeq(done, k + 1, Len(done))

\* search(query, top_k): the result list, and the collections queried
search(backend, top_k) ==
    LET merged == CollectionItems(backend, Collections[1], top_k)
                  \o CollectionItems(backend, Collections[2], top_k)
                  \o CollectionItems(backend, Collections[3], top_k)
                  \o CollectionItems(backend, Collections[4], top_k)
        sorted == SortByDistance(merged)
        n == IF Len(sorted) < top_k * 2 THEN Len(sorted) ELSE top_k * 2
    IN  [results |-> SubSeq(sorted, 1, n),
         queried |-> SelectSeq(Collections,
                               LAMBDA c : Len(backend[c].dists) > 0)]

\* lines 229-234
section_titles ==
    [data_dictionary |-> "DATA DICTIONARY (Tables & Columns)",
     metrics |-> "METRIC DEFINITIONS",
     business_rules |-> "BUSINESS RULES",
     documentation |-> "DOCUMENTATION"]

\* lines 222-227: the keys of by_collection, in the order they were inserted
RECURSIVE FirstSeen(_, _)
FirstSeen(results, seen) ==
    IF results = <<>> THEN seen
    ELSE FirstSeen(Tail(results),
                   IF \E i \in DOMAIN seen : seen[i] = Head(results).collection
                   THEN seen ELSE Append(seen, Head(results).collection))

\* get_all_context, lines 217-243: context_parts, which "\n".join turns into
\* the text returned
RECURSIVE ContextParts(_, _)
ContextParts(results, groups) ==
    IF groups = <<>> THEN <<>>
    ELSE LET items == SelectSeq(results,
                                LAMBDA x : x.collection = Head(groups))
         IN  << <<"\n=== ", section_titles[Head(groups)], " ===">> >>
             \o [i \in DOMAIN items |-> <<"\n">> \o items[i].content]
             \o ContextParts(results, Tail(groups))

get_all_context(backend, top_k) ==
    LET results == search(backend, top_k).results
    IN  IF results = <<>> THEN <<"No relevant context found.">>
        ELSE Join(<<"\n">>, ContextParts(results, FirstSeen(results, <<>>)))

\* SpecSearch: search and get_all_context calls on every content of the four
\* collections made of CollectionStates
VsSearch ==
    /\ vs.pc = "idle"
    /\ \E backend \in [Range(Collections) -> CollectionStates],
          top_k \in 1..MaxTopK :
          vs' = [pc |-> "searched", top_k |-> top_k, backend |-> backend,
                 results |-> search(backend, top_k), context |-> <<>>]
    /\ UNCHANGED <<hist, admin, txt, exq, llm, conversations, heap, chat_sessions,
                   chat_messages, uuid_next, runs>>

VsGetAllContext ==
    /\ vs.pc = "idle"
    /\ \E backend \in [Range(Collections) -> CollectionStates],
          top_k \in 1..MaxTopK :
          vs' = [pc |-> "context", top_k |-> top_k, backend |-> backend,
                 results |-> search(backend, top_k),
                 context |-> get_all_context(backend, top_k)]
    /\ UNCHANGED <<hist, admin, txt, exq, llm, conversations, heap, chat_sessions,
                   chat_messages, uuid_next, runs>>

\* the caller has the value; the next call can be made
NextSearch ==
    \/ VsSearch
    \/ VsGetAllContext
    \/ /\ vs.pc # "idle"
       /\ vs' = VsIdle
       /\ UNCHANGED <<hist, admin, txt, exq, llm, conversations, heap,
                      chat_sessions, chat_messages, uuid_next, runs>>

SpecSearch == Init /\ [][NextSearch]_vars

-----------------------------------------------------------------------------
(* The conversation store under clear_conversation (SpecStore): serial     *)
(* process_query calls and one clear_conversation call between them        *)

\* variant: every conversation is dropped from the store
ClearAllConversations(id) ==
    /\ \A r \in DOMAIN runs : Finished(r)
    /\ admin' = [op |-> "clear_conversation", id |-> id,
                 ret |-> id \in DOMAIN conversations]
    /\ conversations' = IF id \in DOMAIN conversations THEN <<>>
                        ELSE conversations
    /\ UNCHANGED <<vs, hist, txt, exq, llm, heap, chat_sessions, chat_messages,
                   uuid_next, runs>>

\* clear_conversation, lines 540-545, called between two process_query calls
ClearConversation(id) ==
    /\ \A r \in DOMAIN runs : Finished(r)
    /\ admin' = [op |-> "clear_conversation", id |-> id,
                 ret |-> id \in DOMAIN conversations]
    /\ conversations' = [x \in DOMAIN conversations \ {id} |-> conversations[x]]
    /\ UNCHANGED <<vs, hist, txt, exq, llm, heap, chat_sessions, chat_messages,
                   uuid_next, runs>>

\* the calls of the serial caller of SpecStore
StoreProcessQuery ==
    /\ \A r \in DOMAIN runs : Finished(r)
    /\ \E req \in { <<<<"H","e","l","l","o">>, <<"c","1">>>>, <<<<"t","o","t","a","l"," ","s","a","l","e","s">>, <<"c","1">>>>,
                    <<<<"-"," ","t","o","t","a","l"," ","s","a","l","e","s","\n","-"," ","h","i">>, None>> } :
          ProcessQuery(req[1], req[2])

\* one step of the process_query call r
RunStep(r) ==
    \/ AddUserMessage(r)
    \/ CreateOrUpdateSession(r)
    \/ SaveUserMessage(r)
    \/ Classify(r)
    \/ SubQuestion(r)
    \/ MultiAnswer(r)
    \/ MultiSave(r)
    \/ Conversational(r)
    \/ ConversationalSave(r)
    \/ Retrieve(r)
    \/ Generate(r)
    \/ Execute(r)
    \/ ExecFailed(r)
    \/ Compose(r)
    \/ AddAssistantMessage(r)
    \/ SaveAssistantMessage(r)
    \/ Except(r)
    \/ Reraise(r)

NextStore ==
    \/ StoreProcessQuery
    \/ \E r \in RunIds : RunStep(r)
    \/ admin = AdminIdle /\ ClearConversation(<<"c","1">>)

SpecStore == Init /\ [][NextStore]_vars

-----------------------------------------------------------------------------
(* process_query called from concurrent threads (SpecConc)                 *)

\* The chat route runs process_query on the event loop, one call at a time
\* (Spec).  SpecConc is the pipeline object called from several threads, or
\* by several server processes on one history database: the statements of
\* the calls interleave, each statement being one step.  The calls are of
\* conversational questions, whose statements on the shared state (lines
\* 386-399 and 453-460) are those of every branch.
\* a thread enters process_query
ConcProcessQuery ==
    /\ Len(runs) < MaxRuns
    /\ \E req \in { <<<<"H","e","l","l","o">>, None>>, <<<<"t","h","a","n","k","s">>, <<"c","1">>>> } :
          runs' = Append(runs, [NewFrame(req[1], req[2], 0)
                                   EXCEPT !.pc = "lookup"])
    /\ UNCHANGED <<vs, hist, admin, txt, exq, llm, conversations, heap, chat_sessions,
                   chat_messages, uuid_next>>

\* _get_or_create_conversation, lines 359-360: the test and the return
Lookup(r) ==
    /\ r \in DOMAIN runs
    /\ runs[r].pc = "lookup"
    /\ LET id == runs[r].conversation_id
       IN  runs' = IF Truthy(id) /\ id \in DOMAIN conversations
                   THEN [runs EXCEPT ![r].pc = "add_user",
                                     ![r].conversation = conversations[id]]
                   ELSE [runs EXCEPT ![r].pc = "create"]
    /\ UNCHANGED <<vs, hist, admin, txt, exq, llm, conversations, heap, chat_sessions,
                   chat_messages, uuid_next>>

\* _get_or_create_conversation, lines 362-365: the new object is stored
\* under new_id, whatever the map holds under it by now
Create(r) ==
    /\ r \in DOMAIN runs
    /\ runs[r].pc = "create"
    /\ LET id     == runs[r].conversation_id
           new_id == IF Truthy(id) THEN id ELSE Uuid4(uuid_next + 1)
           ref    == Len(heap) + 1
       IN  /\ heap' = Append(heap, [conversation_id |-> new_id,
                                    messages |-> <<>>])
           /\ conversations' =
                  [x \in DOMAIN conversations \cup {new_id} |->
                      IF x = new_id THEN ref ELSE conversations[x]]
           /\ uuid_next' = IF Truthy(id) THEN uuid_next ELSE uuid_next + 1
           /\ runs' = [runs EXCEPT ![r].pc = "add_user",
                                   ![r].conversation = ref]
    /\ UNCHANGED <<vs, hist, admin, txt, exq, llm, chat_sessions, chat_messages>>

\* routes.delete_conversation, lines 91-96: clear_conversation, then
\* delete_session (the messages of the id, then its session)
DeleteConversation(id) ==
    /\ admin' = [op |-> "delete_conversation", id |-> id,
                 ret |-> id \in DOMAIN chat_sessions]
    /\ conversations' = [x \in DOMAIN conversations \ {id} |-> conversations[x]]
    /\ chat_messages' = SelectSeq(chat_messages,
                                  LAMBDA m : m.conversation_id # id)
    /\ chat_sessions' = [x \in DOMAIN chat_sessions \ {id} |-> chat_sessions[x]]
    /\ UNCHANGED <<vs, hist, txt, exq, llm, heap, uuid_next, runs>>

NextConc ==
    \/ ConcProcessQuery
    \/ \E r \in RunIds :
          \/ Lookup(r)
          \/ Create(r)
          \/ AddUserMessage(r)
          \/ CreateOrUpdateSession(r)
          \/ SaveUserMessage(r)
          \/ Classify(r)
          \/ Conversational(r)
          \/ ConversationalSave(r)

SpecConc == Init /\ [][NextConc]_vars

\* SpecDelete: the same calls, and one delete-conversation request served
\* meanwhile
NextDelete ==
    \/ NextConc
    \/ admin = AdminIdle /\ DeleteConversation(<<"c","1">>)

SpecDelete == Init /\ [][NextDelete]_vars

-----------------------------------------------------------------------------
(* Properties of execute_query (SpecExec)                                  *)

\* C1: execute_query never reaches the structured-data backend with a query
\* text that, trimmed and upper-cased, does not start with SELECT or that
\* contains one of INSERT, UPDATE, DELETE, DROP, ALTER, CREATE, TRUNCATE, EXEC,
\* EXECUTE as a substring: the call on such a text raises the validation error
\* (ValueError) with no session opened and no statement executed.
C1_GuardBeforeBackend ==
    LET Forbidden(sql) ==
            LET u == Upper(Strip(sql)) IN
            \/ ~StartsWith(u, <<"S","E","L","E","C","T">>)
            \/ \E k \in { <<"I","N","S","E","R","T">>, <<"U","P","D","A","T","E">>, <<"D","E","L","E","T","E">>, <<"D","R","O","P">>,
                          <<"A","L","T","E","R">>, <<"C","R","E","A","T","E">>, <<"T","R","U","N","C","A","T","E">>, <<"E","X","E","C">>,
                          <<"E","X","E","C","U","T","E">> } : Contains(u, k)
    IN  /\ \A i \in DOMAIN exq.res.executed : ~Forbidden(exq.res.executed[i])
        /\ (exq.pc = "done" /\ Forbidden(exq.sql)) =>
              /\ exq.res.kind = "raise"
              /\ exq.res.cls = "ValueError"
              /\ exq.res.sessions = 0
              /\ exq.res.executed = <<>>

\* a text in mixed case that starts with SELECT once trimmed and upper-cased,
\* holds CREATE only as part of a longer word, and was rejected
C1_Witness ==
    /\ exq.pc = "done"
    /\ StartsWith(Upper(Strip(exq.sql)), <<"S","E","L","E","C","T">>)
    /\ Contains(Upper(Strip(exq.sql)), <<"C","R","E","A","T","E">>)
    /\ ~Contains(exq.sql, <<"C","R","E","A","T","E">>)
    /\ exq.res.kind = "raise"
    /\ exq.res.sessions = 0

-----------------------------------------------------------------------------
(* Properties of process_query (Spec)                                      *)

\* C2: whatever branch a run takes, once the runs on a conversation have
\* returned, the durable message list of the conversation has the roles and
\* contents of the in-memory conversation, in the same order.
C2_DurableMirrorsConversation ==
    \A ref \in DOMAIN heap :
        (\A r \in DOMAIN runs :
            runs[r].conversation = ref => runs[r].pc = "returned")
        => LET d == get_session_messages(chat_messages,
                                         heap[ref].conversation_id)
           IN  /\ Len(d) = Len(heap[ref].messages)
               /\ \A i \in DOMAIN d :
                     /\ d[i].role = heap[ref].messages[i].role
                     /\ d[i].content = heap[ref].messages[i].content

\* C3: every run appends exactly two messages to its conversation: its user
\* message first, before classification and before any call to the retriever,
\* the model or the executor, and one assistant message last, whether it
\* returns or re-raises.  So the list of a conversation alternates user,
\* assistant from a user message on, and has two messages per finished run.
C3_TwoMessagesPerRun ==
    \A ref \in DOMAIN heap :
        LET on == {r \in DOMAIN runs : runs[r].conversation = ref}
            m  == heap[ref].messages
            answered == {"multi_save", "conversational_save", "save_assistant",
                         "reraise", "returned", "raised"}
        IN  /\ Len(m) = Cardinality({r \in on : runs[r].pc # "add_user"})
                        + Cardinality({r \in on : runs[r].pc \in answered})
            /\ \A i \in DOMAIN m :
                  m[i].role = IF i % 2 = 1 THEN "user" ELSE "assistant"
            /\ (\A r \in on : Finished(r)) =>
                  /\ Len(m) % 2 = 0
                  /\ Len(m) = 2 * Cardinality(on)
            /\ \A r \in on :
                  LET k == Cardinality({q \in on : q <= r}) IN
                  /\ runs[r].pc = "add_user" =>
                        /\ Len(m) = 2 * (k - 1)
                        /\ runs[r].calls = <<>>
                        /\ runs[r].questions = <<>>
                  /\ runs[r].pc # "add_user" =>
                        /\ Len(m) >= 2 * k - 1
                        /\ m[2 * k - 1] = [role |-> "user",
                                           content |-> runs[r].question]
                  /\ runs[r].pc \in answered => Len(m) >= 2 * k

\* a conversation that served two runs, one that re-raised and one that
\* returned
C3_Witness ==
    \E ref \in DOMAIN heap :
        /\ Len(heap[ref].messages) = 4
        /\ \E r \in DOMAIN runs :
              runs[r].conversation = ref /\ runs[r].pc = "raised"
        /\ \E r \in DOMAIN runs :
              runs[r].conversation = ref /\ runs[r].pc = "returned"

\* C4: in the single-question data-query branch a failure of retrieval, of SQL
\* generation or of answer composition enters the handler with the error; the
\* handler appends the apology embedding the error text to the conversation
\* while the run is still running; the step that ends the run raises that same
\* error, finds the apology already last in the conversation and records
\* nothing; a run in the handler never returns.
C4_ApologyBeforeReraise ==
    [][\A r \in DOMAIN runs :
          LET f == runs[r]
              g == runs'[r]
              m == heap[f.conversation].messages
              n == heap'[f.conversation].messages
              apology ==
                  [role |-> "assistant",
                   content |-> <<"I apologize, but I encountered an error processing your question. Please try again or rephrase your question. Error: ">>
                               \o f.e.msg]
          IN  /\ (g.pc = "except" /\ f.pc # "except") =>
                    /\ f.pc \in {"retrieve", "generate", "compose"}
                    /\ g.e # NoExc
                    /\ n = m
              /\ (f.pc \in {"retrieve", "generate", "compose"} /\ g # f) =>
                    \/ g.pc = "except"
                    \/ g.e = NoExc /\ g.pc \in {"generate", "execute",
                                                 "add_assistant"}
              /\ (f.pc = "except" /\ g # f) =>
                    /\ n = Append(m, apology)
                    /\ g.pc = "reraise"
                    /\ g.e = f.e
              /\ f.pc \in {"except", "reraise"} =>
                    g.pc \in {"except", "reraise", "raised"}
              /\ (g.pc = "raised" /\ f.pc # "raised") =>
                    /\ f.pc = "reraise"
                    /\ f.e # NoExc
                    /\ g.raised = f.e
                    /\ m # <<>>
                    /\ m[Len(m)] = apology
                    /\ n = m
      ]_vars

\* a run whose SQL generation gave up after three rate limits: the error was
\* raised to the caller and the apology with its text is in the conversation
C4_Witness ==
    \E r \in DOMAIN runs :
        /\ runs[r].pc = "raised"
        /\ runs[r].raised.cls = "httpx.HTTPStatusError"
        /\ runs[r].raised.msg = <<"429 Too Many Requests">>
        /\ \E i \in DOMAIN heap[runs[r].conversation].messages :
              /\ heap[runs[r].conversation].messages[i].role = "assistant"
              /\ heap[runs[r].conversation].messages[i].content =
                     ErrorMessage(runs[r].raised)

\* C5 as stated: a run that ends in the Conversational terminal or in the
\* ExecFailed terminal returns a result whose query text is absent or empty
\* and whose table of rows is empty.
C5_NoQueryTextOnEitherTerminal ==
    \A r \in DOMAIN runs :
        LET f == runs[r]
            conversational == f.branch = "conversational"
            exec_failed == f.branch = "data" /\ f.e # NoExc
        IN  (f.pc = "returned" /\ (conversational \/ exec_failed)) =>
               /\ f.response.sql \in {None, <<>>}
               /\ f.response.table = <<>>

\* C5 (amended): a run that ends in the Conversational terminal returns a
\* result with no query text and an empty table; a run that ends in the
\* ExecFailed terminal returns a result with an empty table whose query text
\* is the generated text that was handed to execute_query.
C5_QueryTextKeptOnExecFailed ==
    \A r \in DOMAIN runs :
        LET f == runs[r]
            conversational == f.branch = "conversational"
            exec_failed == f.branch = "data" /\ f.e # NoExc
            handed == SelectSeq(f.calls, LAMBDA c : c.op = "execute_query")
        IN  /\ (f.pc = "returned" /\ conversational) =>
                  /\ f.response.sql = None
                  /\ f.response.table = <<>>
            /\ (f.pc = "returned" /\ exec_failed) =>
                  /\ f.response.table = <<>>
                  /\ Len(handed) = 1
                  /\ f.response.sql = handed[1].arg

\* a run that ended in the ExecFailed terminal and returned a query text that
\* is not empty
C5_Witness ==
    \E r \in DOMAIN runs :
        /\ runs[r].pc = "returned"
        /\ runs[r].branch = "data"
        /\ runs[r].e # NoExc
        /\ runs[r].response.table = <<>>
        /\ runs[r].response.sql = <<"D","R","O","P"," ","T","A","B","L","E"," ","s","a","l","e","s">>

\* C6: when the generated query text is empty or violates the read-only
\* invariant, the step that calls execute_query makes that call and no call to
\* a backend session, and the run goes to its execution-failure branch; from
\* there it returns normally, without a call to compose_answer, with empty
\* rows and the error string as its answer.  A sub-question of a
\* multi-question run with such a query text gets empty rows and the error
\* string as its answer, with no backend session and no compose_answer call,
\* and the run stays in its loop.  No step hands such a text to a session.
C6_BadQueryHandledLocally ==
    [][LET Forbidden(sql) ==
               LET u == Upper(Strip(sql)) IN
               \/ ~StartsWith(u, <<"S","E","L","E","C","T">>)
               \/ \E k \in { <<"I","N","S","E","R","T">>, <<"U","P","D","A","T","E">>, <<"D","E","L","E","T","E">>, <<"D","R","O","P">>,
                             <<"A","L","T","E","R">>, <<"C","R","E","A","T","E">>, <<"T","R","U","N","C","A","T","E">>, <<"E","X","E","C">>,
                             <<"E","X","E","C","U","T","E">> } : Contains(u, k)
       IN  \A r \in DOMAIN runs :
               LET f == runs[r]
                   g == runs'[r]
                   new == SubSeq(g.calls, Len(f.calls) + 1, Len(g.calls))
               IN  /\ (f.pc = "execute" /\ g # f /\ Forbidden(f.sql)) =>
                         /\ g.pc = "exec_failed"
                         /\ new = <<Call("execute_query", f.sql)>>
                         /\ g.sql_results = <<>>
                   /\ (f.pc = "exec_failed" /\ g # f /\ Forbidden(f.sql)) =>
                         /\ g.pc = "returned"
                         /\ new = <<>>
                         /\ g.response.table = <<>>
                         /\ StartsWith(g.response.final_answer,
                                <<"I encountered an error executing the query: ">>)
                         /\ Len(g.response.final_answer) > 2
                   /\ (f.pc = "multi" /\ Len(g.results) = Len(f.results) + 1) =>
                         LET res == g.results[Len(g.results)] IN
                         (res.sql # None /\ Forbidden(res.sql)) =>
                            /\ g.pc = "multi"
                            /\ res.table = <<>>
                            /\ StartsWith(res.answer, <<"Error executing query: ">>)
                            /\ Len(res.answer) > 1
                            /\ \E j \in DOMAIN new :
                                  new[j] = Call("execute_query", res.sql)
                            /\ \A j \in DOMAIN new :
                                  new[j].op \notin {"db.session", "compose_answer"}
                   /\ \A j \in DOMAIN new :
                         new[j].op = "db.session" => ~Forbidden(new[j].arg)
      ]_vars

\* a single-question run whose model response had no SQL: marker, and a
\* multi-question run with a sub-question whose query text was DROP TABLE
\* sales: both returned
C6_Witness ==
    /\ \E r \in DOMAIN runs :
          /\ runs[r].pc = "returned"
          /\ runs[r].branch = "data"
          /\ runs[r].sql = <<>>
          /\ \E j \in DOMAIN runs[r].calls :
                runs[r].calls[j] = Call("execute_query", <<>>)
          /\ runs[r].response.table = <<>>
    /\ \E r \in DOMAIN runs :
          /\ runs[r].pc = "returned"
          /\ runs[r].branch = "multi"
          /\ \E i \in DOMAIN runs[r].results :
                runs[r].results[i].sql = <<"D","R","O","P"," ","T","A","B","L","E"," ","s","a","l","e","s">>

-----------------------------------------------------------------------------
(* Properties of _call_llm (SpecLLM)                                       *)

\* C7: a rate-limit failure on attempts 1 and 2 followed by success on
\* attempt 3 yields exactly two waits, of retry_delay*1 and then retry_delay*2
\* seconds, each between two attempts, and the call returns the text of the
\* third attempt.
C7_TwoIncreasingWaits ==
    LET req == SelectSeq(llm.log, LAMBDA x : x.ev = "attempt")
        slp == SelectSeq(llm.log, LAMBDA x : x.ev = "sleep")
        RateLimited(o) == o.kind = "exc" /\ o.status = 429
    IN  (/\ Len(req) = 3
         /\ RateLimited(req[1].outcome)
         /\ RateLimited(req[2].outcome)
         /\ req[3].outcome.kind = "ok") =>
           /\ Len(slp) = 2
           /\ slp[1].secs = retry_delay * 1
           /\ slp[2].secs = retry_delay * 2
           /\ slp[1].secs < slp[2].secs
           /\ Len(llm.log) = 5
           /\ llm.log[2] = slp[1]
           /\ llm.log[4] = slp[2]
           /\ llm.pc = "returned"
           /\ llm.result = req[3].outcome
           /\ llm.result.at = 3

\* a call that returned on its third attempt after two rate limits
C7_Witness ==
    /\ llm.pc = "returned"
    /\ llm.result.at = 3
    /\ Len(llm.log) = 5
    /\ llm.log[1].outcome.status = 429
    /\ llm.log[3].outcome.status = 429

\* C8: one call makes at most 3 backend attempts, numbered 1, 2, 3; after a
\* third rate limit no attempt can follow and the call raises; the error then
\* raised is the error of the third attempt.
C8_AtMostThreeAttempts ==
    LET req == SelectSeq(llm.log, LAMBDA x : x.ev = "attempt")
    IN  /\ Len(req) <= 3
        /\ \A i \in DOMAIN req : req[i].n = i /\ req[i].outcome.at = i
        /\ (llm.pc = "loop" /\ Len(req) = 3) =>
              /\ ~ENABLED LlmAttempt
              /\ ENABLED LlmGiveUp
        /\ (/\ llm.pc = "raised"
            /\ Len(req) = 3
            /\ \A i \in 1..3 : /\ req[i].outcome.kind = "exc"
                               /\ req[i].outcome.status = 429) =>
              /\ llm.error = req[3].outcome
              /\ llm.error.at = 3

\* a call that raised after three rate-limited attempts
C8_Witness ==
    /\ llm.pc = "raised"
    /\ Len(SelectSeq(llm.log, LAMBDA x : x.ev = "attempt")) = 3
    /\ llm.error.status = 429
    /\ llm.error.at = 3

\* C9: a failure that is not handled as rate limiting (an HTTP status error
\* other than 429, an exception that is not an HTTP status error, an unknown
\* provider name) ends the call at once, on whichever attempt it occurs: it is
\* the last entry of the log, no wait and no attempt follows it, and it is the
\* error raised.
C9_OtherFailuresNotRetried ==
    \A i \in DOMAIN llm.log :
        LET o == llm.log[i].outcome IN
        (/\ llm.log[i].ev = "attempt"
         /\ o.kind = "exc"
         /\ ~(o.cls = "httpx.HTTPStatusError" /\ o.status = 429)) =>
           /\ i = Len(llm.log)
           /\ llm.pc = "raised"
           /\ llm.error = o

\* a call whose second attempt, after one rate limit and its wait, failed
\* with status 500 and raised
C9_Witness ==
    /\ llm.pc = "raised"
    /\ Len(llm.log) = 3
    /\ llm.log[2].ev = "sleep"
    /\ llm.error.cls = "httpx.HTTPStatusError"
    /\ llm.error.status = 500
    /\ llm.error.at = 2

\* C10: for each of the four configured backends a failure that signals rate
\* limiting (status 429) on an attempt before the third is followed by a wait,
\* and the call goes on to another attempt.
C10_RetryWhateverBackend ==
    llm.provider \in {"gemini", "groq", "ollama", "openai"} =>
        \A i \in DOMAIN llm.log :
            (/\ llm.log[i].ev = "attempt"
             /\ llm.log[i].outcome.kind = "exc"
             /\ llm.log[i].outcome.status = 429
             /\ llm.log[i].n < 3) =>
               /\ i < Len(llm.log)
               /\ llm.log[i + 1].ev = "sleep"
               /\ (i + 1 = Len(llm.log) => llm.pc = "loop")
               /\ (i + 1 < Len(llm.log) => llm.log[i + 2].ev = "attempt")


-----------------------------------------------------------------------------
(* Properties of the classification and of the decomposition (SpecText)    *)

\* C11: a text that contains a domain keyword (in whatever case) is never
\* routed to the conversational branch of process_query and never classified
\* conversational as a sub-question, whatever phrases it also contains and
\* however few words it has: it gets no templated reply.
C11_KeywordNeverConversational ==
    (/\ txt.pc = "done"
     /\ txt.op \in {"classify", "classify_single"}
     /\ txt.out.branch = "conversational" \/ txt.out.reply # None) =>
        LET lower == Lower(txt.arg)
        IN  \A i \in DOMAIN DATA_KEYWORDS : ~Contains(lower, DATA_KEYWORDS[i])

\* a question of at most four words that holds a domain keyword, a greeting
\* and an out-of-scope phrase, and was routed to the data branch
C11_Witness ==
    /\ txt.pc = "done"
    /\ txt.op = "classify"
    /\ Contains(Lower(txt.arg), <<"s","a","l","e","s">>)
    /\ Contains(Lower(txt.arg), <<"h","i">>)
    /\ Contains(Lower(txt.arg), <<"w","h","o"," ","i","s">>)
    /\ Len(Words(txt.arg)) <= 4
    /\ txt.out.branch = "data"

\* C12: a text that is not a multi-question text, contains no domain keyword
\* and matches an out-of-scope phrase is routed to the conversational branch
\* and receives the out-of-scope reply, whatever other phrase it matches.
C12_OutOfScopeReplyFirst ==
    (/\ txt.pc = "done"
     /\ txt.op = "classify"
     /\ ~_is_multi_question(txt.arg)
     /\ ~AnyIn(DATA_KEYWORDS, Lower(txt.arg))
     /\ AnyIn(OUT_OF_SCOPE_PATTERNS, Lower(txt.arg))) =>
        /\ txt.out.branch = "conversational"
        /\ txt.out.reply # None
        /\ txt.out.reply[1] = "Sorry, I'm your Analytics Assistant and I can only help with questions about your business data. I can't answer general knowledge questions."

\* C16: for every text the list _extract_questions returns is not empty and
\* its entries occur in the text in the order of the list (an entry ending
\* in a re-appended '?' occurs without it).
C16_NeverEmptyInOrder ==
    (txt.pc = "done" /\ txt.op = "extract") =>
        LET OccursAt(q, p) ==
                \/ SubSeq(txt.arg, p, p + Len(q) - 1) = q
                \/ /\ q # <<>>
                   /\ q[Len(q)] = "?"
                   /\ SubSeq(txt.arg, p, p + Len(q) - 2) = SubSeq(q, 1, Len(q) - 1)
            RECURSIVE InOrder(_, _)
            InOrder(i, from) ==
                \/ i > Len(txt.out)
                \/ \E p \in from..(Len(txt.arg) + 1) :
                      OccursAt(txt.out[i], p) /\ InOrder(i + 1, p + 1)
        IN  /\ txt.out # <<>>
            /\ InOrder(1, 1)

\* C17 as stated: a text with at least 2 lines that, trimmed, begin with a
\* bullet glyph, a dash, an asterisk or an integer followed by '.' or ')'
\* yields one entry per such line, in order, each the trimmed remainder of
\* the line after the marker.
C17_OneEntryPerMarkerLine ==
    (txt.pc = "done" /\ txt.op = "extract") =>
        LET split == Split(txt.arg, "\n")
            lines == [i \in DOMAIN split |-> Strip(split[i])]
            Numbered(l) == /\ LeadingDigits(l) >= 1
                           /\ Len(l) > LeadingDigits(l)
                           /\ l[LeadingDigits(l) + 1] \in {".", ")"}
            Marked(l) == l # <<>> /\ (l[1] \in {"U+2022", "-", "*"} \/ Numbered(l))
            Rest(l) == IF l[1] \in {"U+2022", "-", "*"}
                       THEN Strip(SubSeq(l, 2, Len(l)))
                       ELSE Strip(SubSeq(l, LeadingDigits(l) + 2, Len(l)))
            marked == SelectSeq(lines, Marked)
        IN  Len(marked) >= 2 =>
               txt.out = [i \in DOMAIN marked |-> Rest(marked[i])]

\* C17 (amended): a text with at least 2 lines that, trimmed, begin with such
\* a marker and have at least one more character after it yields one entry
\* per such line, in order, each the trimmed remainder of the line after the
\* marker; whatever '?' the text holds, it is not split on them.
C17_OneEntryPerMarkerLineWithText ==
    (txt.pc = "done" /\ txt.op = "extract") =>
        LET split == Split(txt.arg, "\n")
            lines == [i \in DOMAIN split |-> Strip(split[i])]
            Numbered(l) == /\ LeadingDigits(l) >= 1
                           /\ Len(l) > LeadingDigits(l) + 1
                           /\ l[LeadingDigits(l) + 1] \in {".", ")"}
            Marked(l) == \/ Len(l) >= 2 /\ l[1] \in {"U+2022", "-", "*"}
                         \/ Numbered(l)
            Rest(l) == IF l[1] \in {"U+2022", "-", "*"}
                       THEN Strip(SubSeq(l, 2, Len(l)))
                       ELSE Strip(SubSeq(l, LeadingDigits(l) + 2, Len(l)))
            marked == SelectSeq(lines, Marked)
        IN  Len(marked) >= 2 =>
               /\ txt.out = [i \in DOMAIN marked |-> Rest(marked[i])]
               /\ \A i \in DOMAIN txt.out : txt.out[i] # <<>>

\* a text of two asterisk lines with two '?': the two remainders are returned
C17_Witness ==
    /\ txt.pc = "done"
    /\ txt.op = "extract"
    /\ Count(txt.arg, "?") = 2
    /\ Count(txt.arg, "\n") = 1
    /\ txt.out = << <<"a","?">>, <<"a","?">> >>

\* C18: a text with at least 2 '?' and fewer than 2 list-marker lines is
\* split on '?'; each fragment is trimmed, the fragments of trimmed length 3
\* or less are dropped, and the kept ones are returned in order, each with
\* '?' appended.
C18_SplitOnQuestionMarks ==
    (txt.pc = "done" /\ txt.op = "extract") =>
        LET split == Split(txt.arg, "\n")
            lines == [i \in DOMAIN split |-> Strip(split[i])]
            Numbered(l) == /\ LeadingDigits(l) >= 1
                           /\ Len(l) > LeadingDigits(l)
                           /\ l[LeadingDigits(l) + 1] \in {".", ")"}
            Marked(l) == l # <<>> /\ (l[1] \in {"U+2022", "-", "*"} \/ Numbered(l))
            parts == Split(txt.arg, "?")
            trimmed == [i \in DOMAIN parts |-> Strip(parts[i])]
            Kept(p) == Len(p) > 3
            kept == SelectSeq(trimmed, Kept)
        IN  (Count(txt.arg, "?") >= 2 /\ Len(SelectSeq(lines, Marked)) < 2) =>
               txt.out = [i \in DOMAIN kept |-> kept[i] \o <<"?">>]

\* a text with two '?' whose second fragment is too short and whose tail has
\* no '?': the first fragment and the tail are returned, each with '?'
C18_Witness ==
    /\ txt.pc = "done"
    /\ txt.op = "extract"
    /\ txt.arg = <<"a","b","c","d","?","a","b","?"," ","t","a","i","l">>
    /\ txt.out = << <<"a","b","c","d","?">>, <<"t","a","i","l","?">> >>

-----------------------------------------------------------------------------
(* Properties of the branches of process_query (Spec)                      *)

\* C13: in a multi-question run the results are those of the sub-questions in
\* decomposition order, one per sub-question; the run never enters the error
\* handler and never raises, whatever failed in a sub-question; once the
\* answer is combined every sub-question has its result, and the combined
\* answer holds exactly n sections, labelled Q1..Qn in that order, the k-th
\* with the k-th sub-question and the answer (or inline error text) of it.
C13_AllSubQuestionsAnswered ==
    \A r \in DOMAIN runs :
        LET f  == runs[r]
            n  == Len(f.questions)
            fa == f.final_answer
            pos == {j \in DOMAIN fa : fa[j] = "**Q"}
        IN  f.branch = "multi" =>
              /\ Len(f.results) <= n
              /\ \A i \in DOMAIN f.results :
                    f.results[i].question = f.questions[i]
              /\ f.pc \in {"multi", "multi_save", "returned"}
              /\ f.pc \in {"multi_save", "returned"} =>
                    /\ Len(f.results) = n
                    /\ Cardinality(pos) = n
                    /\ \A j \in pos :
                          LET k == Cardinality({i \in pos : i <= j})
                              q == f.questions[k]
                              a == f.results[k].answer
                          IN  /\ fa[j + 1] = DigitChars[k + 1]
                              /\ SubSeq(fa, j + 2, j + 4 + Len(q) + Len(a))
                                    = <<": ">> \o q \o <<"**", "\n">> \o a
              /\ f.pc = "returned" => f.response.final_answer = fa

\* a multi-question run of two sub-questions that returned: the first failed
\* (its answer is an inline error text), the second was answered
C13_Witness ==
    \E r \in DOMAIN runs :
        /\ runs[r].branch = "multi"
        /\ runs[r].pc = "returned"
        /\ Len(runs[r].questions) = 2
        /\ Len(runs[r].results) = 2
        /\ runs[r].results[1].answer[1] = "Error processing question: "
        /\ runs[r].results[2].answer = <<"Hello! How can I help you with your business data?">>

\* C14: a run in the conversational branch has made no call to the retriever,
\* the model or the executor; its step from the branch test to the save only
\* appends the templated reply to the conversation.  A sub-question that is
\* conversational adds no call either and gets its templated reply, no query
\* text and no rows.
C14_ConversationalMakesNoCall ==
    [][\A r \in DOMAIN runs :
          LET f == runs[r]
              g == runs'[r]
              new == SubSeq(g.calls, Len(f.calls) + 1, Len(g.calls))
          IN  /\ g.branch = "conversational" => g.calls = <<>>
              /\ (f.pc = "conversational" /\ g # f) =>
                    LET reply == _get_conversational_response(f.question) IN
                    /\ g.pc = "conversational_save"
                    /\ g.final_answer = reply
                    /\ heap'[f.conversation].messages =
                          Append(heap[f.conversation].messages,
                                 [role |-> "assistant", content |-> reply])
                    /\ UNCHANGED <<chat_sessions, chat_messages, conversations>>
              /\ (/\ f.pc = "multi"
                  /\ Len(g.results) = Len(f.results) + 1
                  /\ _is_conversational_query_single(
                         f.questions[Len(g.results)])) =>
                    LET q == f.questions[Len(g.results)] IN
                    /\ new = <<>>
                    /\ g.results[Len(g.results)] =
                          [question |-> q, refined_question |-> q, sql |-> None,
                           table |-> <<>>,
                           answer |-> _get_conversational_response_single(q)]
      ]_vars

\* a run that returned through the conversational branch without a call, and
\* a multi-question run whose conversational sub-question was answered after
\* a sub-question that made calls
C14_Witness ==
    /\ \E r \in DOMAIN runs :
          /\ runs[r].branch = "conversational"
          /\ runs[r].pc = "returned"
          /\ runs[r].calls = <<>>
          /\ runs[r].response.sql = None
    /\ \E r \in DOMAIN runs :
          /\ runs[r].branch = "multi"
          /\ Len(runs[r].results) = 2
          /\ runs[r].results[2].sql = None
          /\ Len(runs[r].calls) = 5

\* C15: in the data-query branch the calls are made in the order retrieval,
\* SQL generation, execution, answer composition, each at most once: the
\* executor is called with the generated text after SQL generation returned,
\* the composer after the executor ran the statement and returned; a failed
\* execution leads to the failure branch, which makes no call and returns
\* empty rows and the apology embedding the error text.  The calls of a
\* sub-question follow the same order, and a sub-question whose execution
\* failed has no composer call, empty rows and the error text as its answer.
C15_StepsInFixedOrder ==
    [][\A r \in DOMAIN runs :
          LET f == runs[r]
              g == runs'[r]
              new == SubSeq(g.calls, Len(f.calls) + 1, Len(g.calls))
              Ops(calls) == [j \in DOMAIN calls |-> calls[j].op]
              full == <<"get_all_context", "generate_sql", "execute_query",
                        "db.session", "compose_answer">>
          IN  /\ (f.branch = "data" /\ new # <<>>) =>
                    /\ f.e = NoExc
                    /\ CASE new[1].op = "get_all_context" ->
                              f.calls = <<>> /\ Len(new) = 1
                         [] new[1].op = "generate_sql" ->
                              Ops(f.calls) = SubSeq(full, 1, 1) /\ Len(new) = 1
                         [] new[1].op = "execute_query" ->
                              /\ Ops(f.calls) = SubSeq(full, 1, 2)
                              /\ new[1].arg = f.sql
                              /\ Ops(new) \in {SubSeq(full, 3, 3), SubSeq(full, 3, 4)}
                         [] new[1].op = "compose_answer" ->
                              /\ Ops(f.calls) = SubSeq(full, 1, 4)
                              /\ f.pc = "compose"
                              /\ Len(new) = 1
                         [] OTHER -> FALSE
              /\ (f.pc = "execute" /\ g # f /\ g.e # NoExc) =>
                    /\ g.pc = "exec_failed"
                    /\ g.sql_results = <<>>
              /\ (f.pc = "exec_failed" /\ g # f) =>
                    /\ new = <<>>
                    /\ g.pc = "returned"
                    /\ g.response.table = <<>>
                    /\ f.e.msg # <<>>
                    /\ g.response.final_answer =
                          <<"I encountered an error executing the query: ">>
                          \o f.e.msg
                          \o <<". Please try rephrasing your question.">>
              /\ (f.pc = "multi" /\ Len(g.results) = Len(f.results) + 1) =>
                    LET res == g.results[Len(g.results)]
                        failed == /\ res.answer # <<>>
                                  /\ res.answer[1] = "Error executing query: "
                    IN  /\ Len(new) <= 5
                        /\ Ops(new) = SubSeq(full, 1, Len(new))
                        /\ Len(new) \in {3, 4} <=> failed
                        /\ failed => res.table = <<>> /\ Len(res.answer) > 1
      ]_vars

\* a run of the data branch that made its five calls and returned rows, and
\* a multi-question run whose first sub-question failed in the executor
C15_Witness ==
    /\ \E r \in DOMAIN runs :
          /\ runs[r].branch = "data"
          /\ runs[r].pc = "returned"
          /\ Len(runs[r].calls) = 5
          /\ runs[r].calls[5].op = "compose_answer"
          /\ runs[r].response.table # <<>>
    /\ \E r \in DOMAIN runs :
          /\ runs[r].branch = "multi"
          /\ Len(runs[r].results) >= 1
          /\ runs[r].results[1].answer[1] = "Error executing query: "
          /\ Len(runs[r].calls) = 4

\* C19 (as stated): a call without a conversation id (None) creates a
\* conversation under a newly generated id that was not in the store and
\* returns it; a call with an explicit id (any text) not yet in the store
\* creates the conversation under exactly that id; a call with an id in the
\* store reuses the existing conversation, whose earlier messages are kept
\* and followed by the new ones. The returned conversation_id names the
\* conversation that received the run's messages.
C19_IdCreatedOrReused ==
    [][/\ \A ref \in DOMAIN heap :
             /\ ref \in DOMAIN heap'
             /\ heap'[ref].conversation_id = heap[ref].conversation_id
             /\ Len(heap'[ref].messages) >= Len(heap[ref].messages)
             /\ SubSeq(heap'[ref].messages, 1, Len(heap[ref].messages))
                   = heap[ref].messages
             /\ heap'[ref] # heap[ref] =>
                   \E r \in DOMAIN runs :
                      ~Finished(r) /\ runs[r].conversation = ref
       /\ \A id \in DOMAIN conversations :
             id \in DOMAIN conversations' /\ conversations'[id] = conversations[id]
       /\ Len(runs') = Len(runs) + 1 =>
             LET g == runs'[Len(runs')]
                 cid == g.conversation_id
                 ref == g.conversation
                 Created(id) ==
                     /\ ref = Len(heap) + 1
                     /\ Len(heap') = Len(heap) + 1
                     /\ heap'[ref] = [conversation_id |-> id, messages |-> <<>>]
                     /\ DOMAIN conversations' = DOMAIN conversations \cup {id}
                     /\ conversations'[id] = ref
             IN  CASE cid = None ->
                        /\ heap'[ref].conversation_id \notin DOMAIN conversations
                        /\ heap'[ref].conversation_id # None
                        /\ Created(heap'[ref].conversation_id)
                   [] cid # None /\ cid \notin DOMAIN conversations ->
                        Created(cid)
                   [] OTHER ->
                        /\ ref = conversations[cid]
                        /\ heap' = heap
                        /\ conversations' = conversations
       /\ \A r \in DOMAIN runs :
             (runs[r].pc # "returned" /\ runs'[r].pc = "returned") =>
                LET f == runs[r]
                    g == runs'[r]
                    conv == heap'[g.conversation]
                IN  /\ g.conversation = f.conversation
                    /\ g.response.conversation_id = conv.conversation_id
                    /\ conversations'[g.response.conversation_id] = g.conversation
                    /\ \E i \in DOMAIN conv.messages :
                          /\ conv.messages[i] = [role |-> "user",
                                                 content |-> g.question]
                          /\ \A j \in DOMAIN conv.messages : j > i =>
                                conv.messages[j].role = "assistant"
      ]_vars

\* C19 (amended): the same, where a call "without a conversation id" is a
\* call whose id is None or the empty text, and an explicit id is a
\* non-empty text: the empty id is never the key of a conversation.
C19_NonEmptyIdCreatedOrReused ==
    [][/\ \A ref \in DOMAIN heap :
             /\ ref \in DOMAIN heap'
             /\ heap'[ref].conversation_id = heap[ref].conversation_id
             /\ Len(heap'[ref].messages) >= Len(heap[ref].messages)
             /\ SubSeq(heap'[ref].messages, 1, Len(heap[ref].messages))
                   = heap[ref].messages
             /\ heap'[ref] # heap[ref] =>
                   \E r \in DOMAIN runs :
                      ~Finished(r) /\ runs[r].conversation = ref
       /\ \A id \in DOMAIN conversations :
             id \in DOMAIN conversations' /\ conversations'[id] = conversations[id]
       /\ <<>> \notin DOMAIN conversations'
       /\ Len(runs') = Len(runs) + 1 =>
             LET g == runs'[Len(runs')]
                 cid == g.conversation_id
                 ref == g.conversation
                 Created(id) ==
                     /\ ref = Len(heap) + 1
                     /\ Len(heap') = Len(heap) + 1
                     /\ heap'[ref] = [conversation_id |-> id, messages |-> <<>>]
                     /\ DOMAIN conversations' = DOMAIN conversations \cup {id}
                     /\ conversations'[id] = ref
             IN  CASE cid \in {None, <<>>} ->
                        /\ heap'[ref].conversation_id \notin DOMAIN conversations
                        /\ heap'[ref].conversation_id \notin {None, <<>>}
                        /\ Created(heap'[ref].conversation_id)
                   [] cid \notin {None, <<>>} /\ cid \notin DOMAIN conversations ->
                        Created(cid)
                   [] OTHER ->
                        /\ ref = conversations[cid]
                        /\ heap' = heap
                        /\ conversations' = conversations
       /\ \A r \in DOMAIN runs :
             (runs[r].pc # "returned" /\ runs'[r].pc = "returned") =>
                LET f == runs[r]
                    g == runs'[r]
                    conv == heap'[g.conversation]
                IN  /\ g.conversation = f.conversation
                    /\ g.response.conversation_id = conv.conversation_id
                    /\ conversations'[g.response.conversation_id] = g.conversation
                    /\ \E i \in DOMAIN conv.messages :
                          /\ conv.messages[i] = [role |-> "user",
                                                 content |-> g.question]
                          /\ \A j \in DOMAIN conv.messages : j > i =>
                                conv.messages[j].role = "assistant"
      ]_vars

\* a first run created the conversation "c1" and a second run reused it and
\* put its messages after those of the first
C19_Witness ==
    /\ Len(runs) = 2
    /\ runs[1].pc = "returned" /\ runs[2].pc = "returned"
    /\ runs[1].conversation_id = <<"c","1">>
    /\ runs[2].conversation_id = <<"c","1">>
    /\ runs[2].conversation = runs[1].conversation
    /\ runs[2].response.conversation_id = <<"c","1">>
    /\ Len(heap[runs[2].conversation].messages) = 4
    /\ heap[runs[2].conversation].messages[3].role = "user"
    /\ DOMAIN conversations = {<<"c","1">>}

\* C20 (as stated): the session of a conversation gets its title from the
\* conversation's first user message only: the title is that question
\* trimmed, or its first 47 characters followed by "..." when the trimmed
\* length exceeds 50, so it has at most 50 characters; no later step changes
\* the title or the stored first question.
C20_TitleFromFirstQuestion ==
    [][\A id \in DOMAIN chat_sessions' :
          IF id \in DOMAIN chat_sessions
          THEN /\ chat_sessions'[id].title = chat_sessions[id].title
               /\ chat_sessions'[id].first_question
                     = chat_sessions[id].first_question
          ELSE LET first == heap[conversations[id]].messages[1]
                   trimmed == Strip(first.content)
                   s == chat_sessions'[id]
               IN  /\ first.role = "user"
                   /\ s.first_question = first.content
                   /\ s.title = IF Len(trimmed) > 50
                                THEN SubSeq(trimmed, 1, 47) \o <<".", ".", ".">>
                                ELSE trimmed
                   /\ Len(s.title) <= 50
      ]_vars

\* C20 (amended): the same, except that an empty first question gives the
\* title "New Chat"
C20_TitleFromNonEmptyFirstQuestion ==
    [][\A id \in DOMAIN chat_sessions' :
          IF id \in DOMAIN chat_sessions
          THEN /\ chat_sessions'[id].title = chat_sessions[id].title
               /\ chat_sessions'[id].first_question
                     = chat_sessions[id].first_question
          ELSE LET first == heap[conversations[id]].messages[1]
                   trimmed == Strip(first.content)
                   s == chat_sessions'[id]
               IN  /\ first.role = "user"
                   /\ s.first_question = first.content
                   /\ s.title = IF first.content = <<>> THEN <<"New Chat">>
                                ELSE IF Len(trimmed) > 50
                                THEN SubSeq(trimmed, 1, 47) \o <<".", ".", ".">>
                                ELSE trimmed
                   /\ Len(s.title) <= 50
      ]_vars

\* the first run on "c1" asked the long question, whose title was cut to 47
\* characters and "...", and a second run on "c1" with another question has
\* returned
C20_Witness ==
    /\ Len(runs) = 2
    /\ runs[1].question = LongQuestion
    /\ runs[2].question # LongQuestion
    /\ runs[2].conversation = runs[1].conversation
    /\ runs[2].pc = "returned"
    /\ <<"c","1">> \in DOMAIN chat_sessions
    /\ Len(chat_sessions[<<"c","1">>].title) = 50
    /\ SubSeq(chat_sessions[<<"c","1">>].title, 1, 5) = <<"h","e","l","l","o">>
    /\ SubSeq(chat_sessions[<<"c","1">>].title, 48, 50) = <<".",".",".">>
    /\ chat_sessions[<<"c","1">>].first_question = LongQuestion

-----------------------------------------------------------------------------
(* Waits of _call_llm (SpecLLM)                                            *)

\* C29: in _call_llm every backoff wait is followed by another backend
\* attempt: a wait is never the last thing a call did when it leaves the
\* loop, a finished call has made at most (attempts - 1) waits, and no wait
\* stands between the third failed attempt and the raise.
C29_EveryWaitFollowedByAttempt ==
    LET req == SelectSeq(llm.log, LAMBDA x : x.ev = "attempt")
        slp == SelectSeq(llm.log, LAMBDA x : x.ev = "sleep")
    IN  /\ (llm.pc = "loop" /\ llm.log # <<>>
               /\ llm.log[Len(llm.log)].ev = "sleep") => ENABLED LlmAttempt
        /\ llm.pc \in {"returned", "raised"} =>
              /\ Len(req) >= 1
              /\ Len(slp) <= Len(req) - 1
              /\ llm.log[Len(llm.log)].ev = "attempt"

-----------------------------------------------------------------------------
(* Detection and decomposition of multi-question texts (SpecText)          *)

\* C27: whenever _is_multi_question is true for a text (so that process_query
\* takes the multi-question branch), _extract_questions yields at least 2
\* sub-questions for that same text.
C27_DetectionAgreesWithExtraction ==
    (/\ txt.pc = "done"
     /\ txt.op = "extract"
     /\ _is_multi_question(txt.arg)) => Len(txt.out) >= 2

-----------------------------------------------------------------------------
(* The durable history (Spec)                                              *)

\* C28: in every reachable state the message_count stored for a session
\* equals the number of messages saved for that conversation id.
C28_MessageCountIsNumberOfMessages ==
    \A id \in DOMAIN chat_sessions :
        chat_sessions[id].message_count
            = Len(get_session_messages(chat_messages, id))

-----------------------------------------------------------------------------
(* Round trip through the durable history (SpecHistory)                    *)

\* C21: the messages saved with save_message and re-read with
\* get_session_messages for a conversation id come back in save order, each
\* with its role and content and with its optional fields (query text, result
\* rows, refined question) equal to what was saved; the messages of other
\* conversation ids are not returned.
C21_RoundTrip ==
    hist.pc = "read" =>
        LET mine == SelectSeq(hist.saved,
                              LAMBDA a : a.conversation_id = hist.id)
        IN  /\ Len(hist.out) = Len(mine)
            /\ \A i \in DOMAIN mine :
                  LET m == hist.out[i]
                      a == mine[i]
                  IN  /\ m.role = a.role
                      /\ m.content = a.content
                      /\ m.sql = a.sql_query
                      /\ m.refined_question = a.refined_question
                      /\ IF ~a.table_given
                         THEN "table" \notin DOMAIN m
                         ELSE /\ "table" \in DOMAIN m
                              /\ m.table = a.table_data

-----------------------------------------------------------------------------
(* Retrieval (SpecSearch)                                                  *)

\* C22: search(query, top_k) returns at most 2*top_k items, taken from the
\* merged per-category results (at most top_k per non-empty category, empty
\* categories not queried), sorted ascending by distance with the items
\* lacking a distance after all scored ones; no dropped item has a smaller
\* distance than a retained item.
C22_NearestTwiceTopK ==
    vs.pc \in {"searched", "context"} =>
        LET res == vs.results.results
            k == vs.top_k
            Min(a, b) == IF a < b THEN a ELSE b
            Avail(c) == IF vs.backend[c].raises THEN 0
                        ELSE Min(k, Len(vs.backend[c].dists))
            \* the merged per-category results, as (category, rank) pairs
            merged == {<<c, i>> : c \in Range(Collections), i \in 1..MaxTopK}
                      \cap {p \in Range(Collections) \X (1..MaxTopK) :
                               p[2] <= Avail(p[1])}
            Dist(p) == [given |-> vs.backend[p[1]].scored,
                        d |-> IF vs.backend[p[1]].scored
                              THEN vs.backend[p[1]].dists[p[2]] ELSE 0]
            Item(p) == [content |-> <<p[1], DigitChars[p[2] + 1]>>,
                        collection |-> p[1], distance |-> Dist(p)]
            retained == {p \in merged : \E i \in DOMAIN res : res[i] = Item(p)}
            Smaller(x, y) == x.given /\ (~y.given \/ x.d < y.d)
        IN  /\ Len(res) <= 2 * k
            /\ Len(res) = Min(2 * k, Cardinality(merged))
            /\ \A i \in DOMAIN res : \E p \in merged : res[i] = Item(p)
            /\ \A i, j \in DOMAIN res : i # j => res[i] # res[j]
            /\ \A c \in Range(Collections) :
                  Len(SelectSeq(res, LAMBDA x : x.collection = c)) <= k
            /\ \A i, j \in DOMAIN res :
                  i < j => ~Smaller(res[j].distance, res[i].distance)
            /\ \A p \in merged \ retained : \A i \in DOMAIN res :
                  ~Smaller(Dist(p), res[i].distance)
            /\ \A c \in Range(Collections) :
                  Len(vs.backend[c].dists) = 0 =>
                     \A i \in DOMAIN vs.results.queried :
                        vs.results.queried[i] # c

\* a search with top_k = 1 over four non-empty categories, one of them
\* without distances: two items are kept, the unscored one is dropped
C22_Witness ==
    /\ vs.pc = "searched"
    /\ vs.top_k = 1
    /\ \A c \in Range(Collections) :
          Len(vs.backend[c].dists) > 0 /\ ~vs.backend[c].raises
    /\ ~vs.backend["data_dictionary"].scored
    /\ vs.backend["metrics"].dists[1] = 2
    /\ Len(vs.results.results) = 2
    /\ vs.results.results[1].distance.d = 1
    /\ vs.results.results[2].distance.d = 1
    /\ \A i \in 1..2 : vs.results.results[i].collection # "data_dictionary"

\* C23: get_all_context renders the retained items grouped by category in
\* the fixed display order dictionary, metrics, rules, documentation,
\* whatever the ranking of the items is; each group appears once under its
\* header with its items in ranking order, and when no item is retained the
\* result is the 'no context' sentinel, never an empty string.
C23_FixedDisplayOrder ==
    vs.pc = "context" =>
        LET res == vs.results.results
            titles == {section_titles[c] : c \in Range(Collections)}
            present == SelectSeq(Collections,
                          LAMBDA c : \E i \in DOMAIN res : res[i].collection = c)
            Pos(x) == CHOOSE n \in 1..Len(vs.context) - 1 :
                         /\ vs.context[n] = x.content[1]
                         /\ vs.context[n + 1] = x.content[2]
        IN  /\ vs.context # <<>>
            /\ res = <<>> => vs.context = <<"No relevant context found.">>
            /\ res # <<>> =>
                  /\ SelectSeq(vs.context, LAMBDA a : a \in titles)
                        = [i \in DOMAIN present |-> section_titles[present[i]]]
                  /\ \A i \in DOMAIN res :
                        \E n \in 1..Len(vs.context) - 1 :
                           /\ vs.context[n] = res[i].content[1]
                           /\ vs.context[n + 1] = res[i].content[2]
                  /\ \A i, j \in DOMAIN res :
                        (i < j /\ res[i].collection = res[j].collection)
                           => Pos(res[i]) < Pos(res[j])

-----------------------------------------------------------------------------
(* Concurrent calls of process_query (SpecConc, SpecDelete)                *)

\* C24: concurrent process_query runs that target different conversation
\* ids do not interfere: under every interleaving of their steps, the
\* conversation of a run whose id no other run asked for is in the store
\* under its id and holds exactly the messages that run has appended so far,
\* in the order it appended them.
C24_DifferentIdsDoNotInterfere ==
    \A r \in DOMAIN runs :
        LET f == runs[r]
            alone == \A r2 \in DOMAIN runs \ {r} :
                        \/ ~Truthy(f.conversation_id)
                        \/ runs[r2].conversation_id # f.conversation_id
            user == [role |-> "user", content |-> f.question]
            assistant == [role |-> "assistant", content |-> f.final_answer]
        IN  (alone /\ f.pc \notin {"lookup", "create"}) =>
               LET conv == heap[f.conversation]
               IN  /\ conv.conversation_id \in DOMAIN conversations
                   /\ conversations[conv.conversation_id] = f.conversation
                   /\ Truthy(f.conversation_id)
                         => conv.conversation_id = f.conversation_id
                   /\ \A r2 \in DOMAIN runs \ {r} :
                         runs[r2].conversation # f.conversation
                   /\ conv.messages =
                         CASE f.pc = "add_user" -> <<>>
                           [] f.pc \in {"create_session", "save_user",
                                        "classify", "conversational"} -> <<user>>
                           [] OTHER -> <<user, assistant>>

\* two runs on different conversations have returned, and their steps
\* overlapped: the second run saved its user message between the two saves
\* of the first
C24_Witness ==
    /\ Len(runs) = 2
    /\ runs[1].pc = "returned" /\ runs[2].pc = "returned"
    /\ runs[1].conversation_id = None
    /\ runs[2].conversation_id = <<"c","1">>
    /\ runs[1].conversation # runs[2].conversation
    /\ Len(chat_messages) = 4
    /\ chat_messages[1].conversation_id # <<"c","1">>
    /\ chat_messages[2].conversation_id = <<"c","1">>
    /\ chat_messages[3].conversation_id # <<"c","1">>
    /\ Len(heap[runs[1].conversation].messages) = 2
    /\ Len(heap[runs[2].conversation].messages) = 2

\* C25: when two process_query runs that reference the same, not yet
\* existing, conversation id overlap, exactly one conversation is created for
\* that id and, under every interleaving, all the messages of the runs are
\* in it at the end, each run's user message before that run's assistant
\* message.
C25_OneConversationPerId ==
    (\A r \in DOMAIN runs : runs[r].pc = "returned") =>
        \A id \in DOMAIN conversations :
            LET mine == {r \in DOMAIN runs : runs[r].conversation_id = id}
                msgs == heap[conversations[id]].messages
            IN  Cardinality(mine) >= 2 =>
                   /\ Cardinality({ref \in DOMAIN heap :
                                      heap[ref].conversation_id = id}) = 1
                   /\ Len(msgs) = 2 * Cardinality(mine)
                   /\ \A r \in mine :
                         \E i, j \in DOMAIN msgs :
                            /\ i < j
                            /\ msgs[i] = [role |-> "user",
                                          content |-> runs[r].question]
                            /\ msgs[j] = [role |-> "assistant",
                                          content |-> runs[r].final_answer]

\* C30: in every reachable state of the durable history, every saved
\* message belongs to a conversation id that has a session record, under
\* every interleaving of process_query runs with the delete-conversation
\* operation.
C30_EveryMessageHasSession ==
    \A i \in DOMAIN chat_messages :
        chat_messages[i].conversation_id \in DOMAIN chat_sessions

\* C26: messages are append-only.  In every step the message list of every
\* conversation object before the step is a prefix of its list after it; a
\* step of a process_query run changes no conversation other than the one the
\* run holds and removes or rebinds no id of the store; only clear_conversation
\* removes a conversation, returning true exactly when the id was present and
\* leaving all other ids and every message list untouched.
C26_AppendOnly ==
    [][ /\ Len(heap) <= Len(heap')
        /\ \A ref \in DOMAIN heap :
              /\ heap'[ref].conversation_id = heap[ref].conversation_id
              /\ Len(heap[ref].messages) <= Len(heap'[ref].messages)
              /\ SubSeq(heap'[ref].messages, 1, Len(heap[ref].messages))
                     = heap[ref].messages
        /\ admin' = admin =>
              /\ \A id \in DOMAIN conversations :
                    /\ id \in DOMAIN conversations'
                    /\ conversations'[id] = conversations[id]
              /\ \A ref \in DOMAIN heap :
                    heap'[ref] # heap[ref] =>
                        \E r \in DOMAIN runs :
                            /\ runs[r].conversation = ref
                            /\ runs'[r] # runs[r]
                            /\ \A o \in DOMAIN runs \ {r} : runs'[o] = runs[o]
        /\ admin' # admin =>
              /\ admin'.op = "clear_conversation"
              /\ admin'.ret = (admin'.id \in DOMAIN conversations)
              /\ DOMAIN conversations' = DOMAIN conversations \ {admin'.id}
              /\ \A id \in DOMAIN conversations' :
                    conversations'[id] = conversations[id]
              /\ heap' = heap
              /\ runs' = runs ]_vars

\* clear_conversation removed "c1" and returned true while another
\* conversation stays in the store with the two messages of its run, and the
\* removed object still holds its messages
C26_Witness ==
    /\ admin = [op |-> "clear_conversation", id |-> <<"c","1">>, ret |-> TRUE]
    /\ <<"c","1">> \notin DOMAIN conversations
    /\ \E id \in DOMAIN conversations :
          Len(heap[conversations[id]].messages) = 2
    /\ \E ref \in DOMAIN heap :
          /\ heap[ref].conversation_id = <<"c","1">>
          /\ Len(heap[ref].messages) = 2
====
